---------------------------- MODULE Spec2Model ----------------------------
(***************************************************************************)
(* A model of the Gitlab client of src/gitlab/__init__.py.                 *)
(*                                                                         *)
(* The client object is the function self from attribute names to values   *)
(* (an attribute that was never assigned is absent from DOMAIN self).      *)
(* Every public method is one action.  An action records the call, the     *)
(* HTTP requests it handed to the requests library, the response it got    *)
(* and how the call ended (a returned value or a raised exception).        *)
(* Calls made from several threads are modelled apart, step by step.       *)
(*                                                                         *)
(* A string is a sequence of fragments; the fragments of a host are        *)
(* single characters, since __init__ inspects hosts character by           *)
(* character.                                                              *)
(***************************************************************************)
EXTENDS Integers, Sequences, FiniteSets, TLC

VARIABLES
    phase,      \* "new": no client yet; "ready": constructed; "failed": __init__ raised
    self,       \* the attributes of the Gitlab object
    call,       \* the last call: [op, args]
    outcome,    \* how the last call ended: [kind, value]
    sent,       \* the HTTP requests the last call issued, in order
    request,    \* the response the last call received (the source names it request)
    written,    \* the files the last call wrote, in order: [path, content]
    logged,     \* history: the private_token of the last login that returned True
    sudoed,     \* history: the user of the last setsudo that returned (None: none yet)
    threads,    \* the position of each thread that calls the client concurrently
    remembered  \* history: at most one earlier call, kept with how it ended

vars == <<phase, self, call, outcome, sent, request, written, logged, sudoed,
          threads, remembered>>

-----------------------------------------------------------------------------
(* Bounds and input sets *)

\* longest host body (the part after the scheme) given to the constructor
MaxHostLen == 3

HostChars == {"a", "/"}

HTTP == <<"h", "t", "t", "p", ":", "/", "/">>
HTTPS == <<"h", "t", "t", "p", "s", ":", "/", "/">>

RECURSIVE SeqsUpTo(_)
SeqsUpTo(n) ==
    IF n = 0 THEN {<< >>}
    ELSE LET shorter == SeqsUpTo(n - 1)
         IN  shorter \cup {Append(s, c) : s \in shorter, c \in HostChars}

\* the hosts the constructor is tried on: with and without a scheme, with
\* and without trailing slashes, and the empty host
Hosts == {scheme \o body : scheme \in {<< >>, HTTP, HTTPS}, body \in SeqsUpTo(MaxHostLen)}

\* the hosts of the clients the operations are run on
SessionHosts == {<< >>, <<"a">>}

\* token arguments of the constructor ("" is the default: no token)
Tokens == {"", "t1"}

\* Python's None as an argument
None == "<None>"

\* users of setsudo and login, e-mails and passwords of login
Users == {"u1", "u2"}
Emails == {"e1"}
Passwords == {"p1"}

\* identifiers of remote resources, as formatted into URLs
Ids == {"7"}

\* the extra named fields (**kwargs) given to a create operation: none, one
\* that is no required field, one that names a required field
Kwargs == {[k \in {} |-> ""], [description |-> "d1"], [name |-> "n2"]}

\* the extra named fields of a call that takes a title
TitleKwargs == {[k \in {} |-> ""], [description |-> "d1"], [title |-> "i2"]}

-----------------------------------------------------------------------------
(* Python values *)

EmptyDict == [k \in {} |-> ""]

PyTrue == [t |-> "bool", v |-> "True"]
PyFalse == [t |-> "bool", v |-> "False"]
PyNone == [t |-> "NoneType", v |-> "None"]
PyDict(d) == [t |-> "dict", v |-> d]
PyStr(s) == [t |-> "str", v |-> s]
PyException(type, msg) == [t |-> type, v |-> msg]

Return(value) == [kind |-> "return", value |-> value]
Raise(type, msg) == [kind |-> "raise", value |-> PyException(type, msg)]
Idle == [kind |-> "idle", value |-> PyNone]

\* obj.name = value
SetAttr(obj, name, value) ==
    [a \in DOMAIN obj \cup {name} |-> IF a = name THEN value ELSE obj[a]]

\* d[key] = value on a dict
SetItem(d, key, value) ==
    [k \in DOMAIN d \cup {key} |-> IF k = key THEN value ELSE d[k]]

\* d without key (dict.pop with the KeyError swallowed)
Pop(d, key) == [k \in DOMAIN d \ {key} |-> d[k]]

\* the truth value of an optional string argument (None and "" are falsy)
Truthy(x) == x # None /\ x # ""

\* s[:n]
Slice(s, n) == SubSeq(s, 1, IF n < Len(s) THEN n ELSE Len(s))

-----------------------------------------------------------------------------
(* Responses of the remote server *)

\* The bodies the server answers with are JSON documents: the literal null or
\* an object; which fields an object carries is the server's choice.
NullContent == [raw |-> "null", obj |-> EmptyDict]
ObjContent(d) == [raw |-> "object", obj |-> d]

LimitText == "Your own projects limit is 0"
BranchMissingText == "404 Branch does not exist Not Found"

Contents ==
    {NullContent, ObjContent(EmptyDict),
     ObjContent([private_token |-> "t2"]),
     ObjContent([message |-> LimitText]),
     ObjContent([message |-> BranchMissingText])}

Statuses == {200, 201, 403, 404}

Responses == [status_code : Statuses, content : Contents]

NoResponse == [status_code |-> 0, content |-> NullContent]

\* json.loads(request.content.decode("utf-8"))
json_loads(content) ==
    IF content.raw = "null" THEN PyNone ELSE PyDict(content.obj)

\* value[key] of a decoded body: None is not subscriptable, a dict raises
\* KeyError for a key it does not hold
Subscript(value, key) ==
    IF value.t # "dict" THEN Raise("TypeError", key)
    ELSE IF key \notin DOMAIN value.v THEN Raise("KeyError", key)
    ELSE Return(PyStr(value.v[key]))

\* json.loads(request.content.decode("utf-8"))[key]
json_field(content, key) == Subscript(json_loads(content), key)

\* needle in request.text
TextContains(content, needle) ==
    /\ content.raw = "object"
    /\ "message" \in DOMAIN content.obj
    /\ content.obj["message"] = needle

-----------------------------------------------------------------------------
(* Gitlab.__init__ *)

NoAttrs == [a \in {} |-> ""]

\* lines 22-24: the token and the headers are set only for a non-empty token
init_token(obj, token) ==
    IF token # ""
    THEN SetAttr(SetAttr(obj, "token", token), "headers", ("PRIVATE-TOKEN" :> token))
    ELSE obj

\* the check of lines 25-26 written as "host is None": an empty string passes
init_check_none_only(host) == Return(PyNone)

\* lines 25-26
init_check(host) ==
    IF host = << >> THEN Raise("ValueError", "host argument may not be empty")
    ELSE Return(PyNone)

\* lines 27-34 with the cut of the trailing slash left out
init_host_uncut(host) ==
    IF host = << >> THEN Raise("IndexError", "string index out of range")
    ELSE IF Slice(host, 7) = HTTP \/ Slice(host, 8) = HTTPS
         THEN Return(host)
         ELSE Return(HTTPS \o host)

\* lines 27-34: one trailing slash is cut, then the scheme is defaulted;
\* host[-1] of an empty string raises IndexError
init_host(host) ==
    IF host = << >> THEN Raise("IndexError", "string index out of range")
    ELSE LET stripped == IF host[Len(host)] = "/"
                         THEN SubSeq(host, 1, Len(host) - 1)
                         ELSE host
         IN  IF Slice(stripped, 7) = HTTP \/ Slice(stripped, 8) = HTTPS
             THEN Return(stripped)
             ELSE Return(HTTPS \o stripped)

\* lines 36-42
init_urls(obj) ==
    LET api_url == obj.host \o <<"/api/v3">>
        o1 == SetAttr(obj, "api_url", api_url)
        o2 == SetAttr(o1, "projects_url", api_url \o <<"/projects">>)
        o3 == SetAttr(o2, "users_url", api_url \o <<"/users">>)
        o4 == SetAttr(o3, "keys_url", api_url \o <<"/user/keys">>)
        o5 == SetAttr(o4, "groups_url", api_url \o <<"/groups">>)
        o6 == SetAttr(o5, "search_url", api_url \o <<"/projects/search">>)
    IN  SetAttr(o6, "hook_url", api_url \o <<"/hooks">>)

\* lines 16-43: the attributes __init__ has assigned when it ends
init_self(host, token, verify_ssl) ==
    LET tokened == init_token(NoAttrs, token)
    IN  IF init_check(host).kind = "raise" \/ init_host(host).kind = "raise"
        THEN tokened
        ELSE SetAttr(init_urls(SetAttr(tokened, "host", init_host(host).value)),
                     "verify_ssl", verify_ssl)

\* lines 16-43: how __init__ ends
init_outcome(host) ==
    IF init_check(host).kind = "raise" THEN init_check(host)
    ELSE IF init_host(host).kind = "raise" THEN init_host(host)
    ELSE Return(PyNone)

__init__(host, token, verify_ssl) ==
    /\ phase = "new"
    /\ call' = [op |-> "__init__", args |-> <<host, token, verify_ssl>>]
    /\ sent' = << >>
    /\ request' = NoResponse
    /\ self' = init_self(host, token, verify_ssl)
    /\ outcome' = init_outcome(host)
    /\ phase' = IF init_outcome(host).kind = "raise" THEN "failed" ELSE "ready"
    /\ written' = << >>
    /\ UNCHANGED <<logged, sudoed, threads, remembered>>

-----------------------------------------------------------------------------
(* Requests *)

HttpRequest(method, url, headers, verify, data, params) ==
    [method |-> method, url |-> url, headers |-> headers, verify |-> verify,
     data |-> data, params |-> params]

\* "{}/{}".format(base, id) and its longer forms: the base and the fragments
\* that follow it
Format(base, rest) == base \o rest

\* a method that answers a call it was just made with from what that earlier
\* call returned
SessionCall_cached(op, args, method, url, data, params, result) ==
    /\ phase = "ready"
    /\ call' = [op |-> op, args |-> args]
    /\ written' = << >>
    /\ UNCHANGED <<phase, self, logged, sudoed, threads, remembered>>
    /\ IF "headers" \notin DOMAIN self
       THEN /\ sent' = << >>
            /\ request' = NoResponse
            /\ outcome' = Raise("AttributeError", "headers")
       ELSE \E r \in Responses :
            /\ sent' = <<HttpRequest(method, url, self.headers, self.verify_ssl,
                                     data, params)>>
            /\ request' = r
            /\ outcome' = IF call = [op |-> op, args |-> args] /\ outcome.kind = "return"
                          THEN outcome ELSE result[r]

\* a method that reads the headers with a default: a client without headers
\* sends its request with none
SessionCall_anonymous(op, args, method, url, data, params, result) ==
    /\ phase = "ready"
    /\ call' = [op |-> op, args |-> args]
    /\ written' = << >>
    /\ UNCHANGED <<phase, self, logged, sudoed, threads, remembered>>
    /\ \E r \in Responses :
          /\ sent' = <<HttpRequest(method, url,
                                   IF "headers" \in DOMAIN self THEN self.headers
                                   ELSE EmptyDict,
                                   self.verify_ssl, data, params)>>
          /\ request' = r
          /\ outcome' = result[r]

\* a method that sends its request a second time after a status of 400 or more
SessionCall_resend(op, args, method, url, data, params, result) ==
    /\ phase = "ready"
    /\ call' = [op |-> op, args |-> args]
    /\ written' = << >>
    /\ UNCHANGED <<phase, self, logged, sudoed, threads, remembered>>
    /\ IF "headers" \notin DOMAIN self
       THEN /\ sent' = << >>
            /\ request' = NoResponse
            /\ outcome' = Raise("AttributeError", "headers")
       ELSE \E r \in Responses :
            LET req == HttpRequest(method, url, self.headers, self.verify_ssl,
                                   data, params)
            IN  /\ sent' = IF r.status_code >= 400 THEN <<req, req>> ELSE <<req>>
                /\ request' = r
                /\ outcome' = result[r]

\* A method that passes headers=self.headers and verify=self.verify_ssl to one
\* requests call and maps the response to its result (result[r] is how the
\* method ends when the response is r).  Reading self.headers
\* on a client that never got a token raises AttributeError while the
\* arguments of the requests call are evaluated, before anything is sent.
SessionCall(op, args, method, url, data, params, result) ==
    /\ phase = "ready"
    /\ call' = [op |-> op, args |-> args]
    /\ written' = << >>
    /\ UNCHANGED <<phase, self, logged, sudoed, threads, remembered>>
    /\ IF "headers" \notin DOMAIN self
       THEN /\ sent' = << >>
            /\ request' = NoResponse
            /\ outcome' = Raise("AttributeError", "headers")
       ELSE \E r \in Responses :
            /\ sent' = <<HttpRequest(method, url, self.headers, self.verify_ssl,
                                     data, params)>>
            /\ request' = r
            /\ outcome' = result[r]

-----------------------------------------------------------------------------
(* Gitlab.login and Gitlab.setsudo *)

\* lines 52-57
login_data(email, password, user) ==
    IF user # None THEN [login |-> user, password |-> password]
    ELSE [email |-> email, password |-> password]

\* lines 62-69 with the failure reported the way the other methods report
\* it, by returning False
login_result_sentinel(r) ==
    IF r.status_code = 201
    THEN LET token == json_field(r.content, "private_token")
         IN  IF token.kind = "raise" THEN token ELSE Return(PyTrue)
    ELSE Return(PyFalse)

\* lines 62-69: the outcome of login for a response
login_result(r) ==
    IF r.status_code = 201
    THEN LET token == json_field(r.content, "private_token")
         IN  IF token.kind = "raise" THEN token ELSE Return(PyTrue)
    ELSE LET msg == json_field(r.content, "message")
         IN  IF msg.kind = "raise" THEN msg ELSE Raise("HttpError", msg.value.v)

\* the headers rebound to the ones of the session request before the status
\* is known, so that a failure leaves the client without its token header
login_self_rebound(obj, r) ==
    IF r.status_code = 201 /\ json_field(r.content, "private_token").kind = "return"
    THEN LET token == json_field(r.content, "private_token").value.v
         IN  SetAttr(SetAttr(obj, "token", token), "headers",
                     ("PRIVATE-TOKEN" :> token) @@ ("connection" :> "close"))
    ELSE SetAttr(obj, "headers", ("connection" :> "close"))

\* the headers built from the new token while self.token keeps the old one
login_self_stale(obj, r) ==
    IF r.status_code = 201 /\ json_field(r.content, "private_token").kind = "return"
    THEN LET token == json_field(r.content, "private_token").value.v
         IN  SetAttr(obj, "headers",
                     ("PRIVATE-TOKEN" :> token) @@ ("connection" :> "close"))
    ELSE obj

\* lines 63-65: the client after login got the response
login_self(obj, r) ==
    IF r.status_code = 201 /\ json_field(r.content, "private_token").kind = "return"
    THEN LET token == json_field(r.content, "private_token").value.v
         IN  SetAttr(SetAttr(obj, "token", token), "headers",
                     ("PRIVATE-TOKEN" :> token) @@ ("connection" :> "close"))
    ELSE obj

\* login without the test of lines 52-57: the session request is sent even
\* when neither a user nor an email is given
login_unchecked(email, password, user) ==
    /\ phase = "ready"
    /\ call' = [op |-> "login", args |-> <<email, password, user>>]
    /\ written' = << >>
    /\ UNCHANGED <<phase, sudoed, threads, remembered>>
    /\ \E r \in Responses :
          /\ sent' = <<HttpRequest("POST", self.host \o <<"/api/v3/session">>,
                                   ("connection" :> "close"), self.verify_ssl,
                                   login_data(email, password, user), EmptyDict)>>
          /\ request' = r
          /\ self' = login_self(self, r)
          /\ outcome' = login_result(r)
          /\ logged' = IF login_result(r) = Return(PyTrue)
                       THEN json_field(r.content, "private_token").value.v
                       ELSE logged

\* lines 45-69
login(email, password, user) ==
    /\ phase = "ready"
    /\ call' = [op |-> "login", args |-> <<email, password, user>>]
    /\ written' = << >>
    /\ UNCHANGED <<phase, sudoed, threads, remembered>>
    /\ IF user = None /\ email = None
       THEN /\ sent' = << >>
            /\ request' = NoResponse
            /\ outcome' = Raise("ValueError",
                                "Neither username nor email provided to login")
            /\ UNCHANGED <<self, logged>>
       ELSE \E r \in Responses :
            /\ sent' = <<HttpRequest("POST", self.host \o <<"/api/v3/session">>,
                                     ("connection" :> "close"), self.verify_ssl,
                                     login_data(email, password, user), EmptyDict)>>
            /\ request' = r
            /\ self' = login_self(self, r)
            /\ outcome' = login_result(r)
            /\ logged' = IF login_result(r) = Return(PyTrue)
                         THEN json_field(r.content, "private_token").value.v
                         ELSE logged

\* a setsudo that keeps the SUDO entry the headers already hold
setsudo_headers_first(headers, user) ==
    IF user = None THEN Pop(headers, "SUDO")
    ELSE IF "SUDO" \in DOMAIN headers THEN headers
    ELSE SetItem(headers, "SUDO", user)

\* lines 77-83: the headers after setsudo(user)
setsudo_headers(headers, user) ==
    IF user = None THEN Pop(headers, "SUDO") ELSE SetItem(headers, "SUDO", user)

setsudo(user) ==
    /\ phase = "ready"
    /\ call' = [op |-> "setsudo", args |-> <<user>>]
    /\ sent' = << >>
    /\ request' = NoResponse
    /\ written' = << >>
    /\ UNCHANGED <<phase, logged, threads, remembered>>
    /\ IF "headers" \notin DOMAIN self
       THEN /\ outcome' = Raise("AttributeError", "headers")
            /\ UNCHANGED <<self, sudoed>>
       ELSE /\ self' = SetAttr(self, "headers", setsudo_headers(self.headers, user))
            /\ outcome' = Return(PyNone)
            /\ sudoed' = user

-----------------------------------------------------------------------------
(* Users *)

\* lines 93-95
getusers_params(search, page, per_page) ==
    LET data == [page |-> page, per_page |-> per_page]
    IN  IF Truthy(search) THEN SetItem(data, "search", search) ELSE data

\* lines 98-101
getusers_result(r) ==
    IF r.status_code = 200 THEN Return(json_loads(r.content)) ELSE Return(PyFalse)

getusers(search, page, per_page) ==
    SessionCall("getusers", <<search, page, per_page>>, "GET", self.users_url,
                EmptyDict, getusers_params(search, page, per_page),
                [r \in Responses |-> getusers_result(r)])

\* lines 109-114
getuser_result(r) ==
    IF r.status_code = 200 THEN Return(json_loads(r.content)) ELSE Return(PyFalse)

getuser(user_id) ==
    SessionCall("getuser", <<user_id>>, "GET", Format(self.users_url, <<"/", user_id>>),
                EmptyDict, EmptyDict, [r \in Responses |-> getuser_result(r)])

\* lines 126-129: data.update(kwargs) lets an extra field replace a required one
createuser_data(name, username, password, email, kwargs) ==
    LET data == [name |-> name, username |-> username, password |-> password,
                 email |-> email]
    IN  [k \in DOMAIN data \cup DOMAIN kwargs |->
            IF k \in DOMAIN kwargs THEN kwargs[k] ELSE data[k]]

\* lines 133-136: no branch returns for a status that is neither 201 nor 404
createuser_result(r) ==
    IF r.status_code = 201 THEN Return(json_loads(r.content))
    ELSE IF r.status_code = 404 THEN Return(PyFalse)
    ELSE Return(PyNone)

createuser(name, username, password, email, kwargs) ==
    SessionCall("createuser", <<name, username, password, email, kwargs>>, "POST",
                self.users_url, createuser_data(name, username, password, email, kwargs),
                EmptyDict, [r \in Responses |-> createuser_result(r)])

\* lines 148-152
deleteuser(user_id) ==
    SessionCall("deleteuser", <<user_id>>, "DELETE",
                Format(self.users_url, <<"/", user_id>>), EmptyDict, EmptyDict,
                [r \in Responses |->
                    IF r.status_code = 200 THEN Return(PyTrue) ELSE Return(PyFalse)])

-----------------------------------------------------------------------------
(* SSH keys *)

\* lines 258-261: the body decides, the status is not read
deletesshkey(key_id) ==
    SessionCall("deletesshkey", <<key_id>>, "DELETE",
                Format(self.keys_url, <<"/", key_id>>), EmptyDict, EmptyDict,
                [r \in Responses |->
                    IF r.content.raw = "null" THEN Return(PyFalse) ELSE Return(PyTrue)])

-----------------------------------------------------------------------------
(* Projects, members, hooks, branches, forks *)

\* lines 363-366
createproject_data(name, kwargs) ==
    LET data == [name |-> name]
    IN  [k \in DOMAIN data \cup DOMAIN kwargs |->
            IF k \in DOMAIN kwargs THEN kwargs[k] ELSE data[k]]

\* lines 370-378: a 403 without the limit text falls off the end of the method
createproject_result(r) ==
    IF r.status_code = 201 THEN Return(json_loads(r.content))
    ELSE IF r.status_code = 403
         THEN IF TextContains(r.content, LimitText) THEN Return(PyFalse)
              ELSE Return(PyNone)
    ELSE Return(PyFalse)

createproject(name, kwargs) ==
    SessionCall("createproject", <<name, kwargs>>, "POST", self.projects_url,
                createproject_data(name, kwargs), EmptyDict,
                [r \in Responses |-> createproject_result(r)])

\* lines 388-389: there is no else branch
deleteproject(project_id) ==
    SessionCall("deleteproject", <<project_id>>, "DELETE",
                Format(self.projects_url, <<"/", project_id>>), EmptyDict, EmptyDict,
                [r \in Responses |->
                    IF r.status_code = 200 THEN Return(PyTrue) ELSE Return(PyNone)])

\* lines 504-505: there is no else branch
deleteprojectmember(project_id, user_id) ==
    SessionCall("deleteprojectmember", <<project_id, user_id>>, "DELETE",
                Format(self.projects_url, <<"/", project_id, "/members/", user_id>>),
                EmptyDict, EmptyDict, [r \in Responses |->
                    IF r.status_code = 200 THEN Return(PyTrue) ELSE Return(PyNone)])

\* lines 578-581
deleteprojecthook(project_id, hook_id) ==
    SessionCall("deleteprojecthook", <<project_id, hook_id>>, "DELETE",
                Format(self.projects_url, <<"/", project_id, "/hooks/", hook_id>>),
                EmptyDict, EmptyDict, [r \in Responses |->
                    IF r.status_code = 200 THEN Return(PyTrue) ELSE Return(PyFalse)])

\* lines 632-635
deletesystemhook(hook_id) ==
    SessionCall("deletesystemhook", <<hook_id>>, "DELETE",
                Format(self.hook_url, <<"/", hook_id>>), [id |-> hook_id], EmptyDict,
                [r \in Responses |->
                    IF r.status_code = 200 THEN Return(PyTrue) ELSE Return(PyFalse)])

\* lines 693-696
deletebranch(project_id, branch) ==
    SessionCall("deletebranch", <<project_id, branch>>, "DELETE",
                Format(self.projects_url,
                       <<"/", project_id, "/repository/branches/", branch>>),
                EmptyDict, EmptyDict, [r \in Responses |->
                    IF r.status_code = 200 THEN Return(PyTrue) ELSE Return(PyFalse)])

\* lines 753-757
removeforkrelation(project_id) ==
    SessionCall("removeforkrelation", <<project_id>>, "DELETE",
                Format(self.projects_url, <<"/", project_id, "/fork">>),
                EmptyDict, EmptyDict, [r \in Responses |->
                    IF r.status_code = 200 THEN Return(PyTrue) ELSE Return(PyFalse)])

\* lines 768-771
createfork_result(r) ==
    IF r.status_code = 200 THEN Return(PyTrue) ELSE Return(PyFalse)

\* line 766: requests.post(url) is given neither headers nor verify, so the
\* request carries no session header and the library's default verify=True
createfork_request(obj, project_id) ==
    HttpRequest("POST", Format(obj.projects_url, <<"/fork/", project_id>>),
                EmptyDict, TRUE, EmptyDict, EmptyDict)

createfork(project_id) ==
    /\ phase = "ready"
    /\ call' = [op |-> "createfork", args |-> <<project_id>>]
    /\ written' = << >>
    /\ UNCHANGED <<phase, self, logged, sudoed, threads, remembered>>
    /\ \E r \in Responses :
          /\ sent' = <<createfork_request(self, project_id)>>
          /\ request' = r
          /\ outcome' = createfork_result(r)

-----------------------------------------------------------------------------
(* Deploy keys, snippets, groups, files, services, labels *)

\* lines 990-994
deletedeploykey(project_id, key_id) ==
    SessionCall("deletedeploykey", <<project_id, key_id>>, "DELETE",
                Format(self.projects_url, <<"/", project_id, "/keys/", key_id>>),
                EmptyDict, EmptyDict, [r \in Responses |->
                    IF r.status_code = 200 THEN Return(PyTrue) ELSE Return(PyFalse)])

\* lines 1250-1253
deletesnippet(project_id, snippet_id) ==
    SessionCall("deletesnippet", <<project_id, snippet_id>>, "DELETE",
                Format(self.projects_url, <<"/", project_id, "/snippets/", snippet_id>>),
                EmptyDict, EmptyDict, [r \in Responses |->
                    IF r.status_code = 200 THEN Return(PyTrue) ELSE Return(PyFalse)])

\* lines 1519-1522
deletegroup(group_id) ==
    SessionCall("deletegroup", <<group_id>>, "DELETE",
                Format(self.groups_url, <<"/", group_id>>), EmptyDict, EmptyDict,
                [r \in Responses |->
                    IF r.status_code = 200 THEN Return(PyTrue) ELSE Return(PyFalse)])

\* lines 1581-1582: there is no else branch
deletegroupmember(group_id, user_id) ==
    SessionCall("deletegroupmember", <<group_id, user_id>>, "DELETE",
                Format(self.groups_url, <<"/", group_id, "/members/", user_id>>),
                EmptyDict, EmptyDict, [r \in Responses |->
                    IF r.status_code = 200 THEN Return(PyTrue) ELSE Return(PyNone)])

\* lines 1769-1772
deletefile(project_id, file_path, branch_name, commit_message) ==
    SessionCall("deletefile", <<project_id, file_path, branch_name, commit_message>>,
                "DELETE",
                Format(self.projects_url, <<"/", project_id, "/repository/files">>),
                [file_path |-> file_path, branch_name |-> branch_name,
                 commit_message |-> commit_message],
                EmptyDict, [r \in Responses |->
                    IF r.status_code = 200 THEN Return(PyTrue) ELSE Return(PyFalse)])

\* lines 1799-1802
deletegitlabciservice(project_id, token, project_url) ==
    SessionCall("deletegitlabciservice", <<project_id, token, project_url>>, "DELETE",
                Format(self.projects_url, <<"/", project_id, "/services/gitlab-ci">>),
                EmptyDict, EmptyDict, [r \in Responses |->
                    IF r.status_code = 200 THEN Return(PyTrue) ELSE Return(PyFalse)])

\* lines 1848-1851
deletelabel(project_id, name) ==
    SessionCall("deletelabel", <<project_id, name>>, "DELETE",
                Format(self.projects_url, <<"/", project_id, "/labels">>),
                [name |-> name], EmptyDict, [r \in Responses |->
                    IF r.status_code = 200 THEN Return(PyTrue) ELSE Return(PyFalse)])

-----------------------------------------------------------------------------
(* Create operations with extra named fields *)

\* data = kwargs in place of data.update(kwargs): the fields set before are lost
Update_rebind(data, kwargs) == kwargs

\* data.update(kwargs): every key of kwargs is set, replacing a key data
\* already holds
Update(data, kwargs) ==
    [k \in DOMAIN data \cup DOMAIN kwargs |->
        IF k \in DOMAIN kwargs THEN kwargs[k] ELSE data[k]]

\* lines 408-411
createprojectuser_data(name, kwargs) == Update([name |-> name], kwargs)

\* lines 391-419
createprojectuser(user_id, name, kwargs) ==
    SessionCall("createprojectuser", <<user_id, name, kwargs>>, "POST",
                Format(self.projects_url, <<"/user/", user_id>>),
                createprojectuser_data(name, kwargs), EmptyDict,
                [r \in Responses |->
                    IF r.status_code = 201 THEN Return(PyTrue)
                    ELSE Return(PyFalse)])

\* line 828 names id, which no parameter or local of createissue binds: it is
\* the builtin function id, not project_id
BuiltinId == "<built-in function id>"

\* lines 828-830
createissue_data(project_id, title, kwargs) ==
    Update([id |-> BuiltinId, title |-> title], kwargs)

\* lines 821-836
createissue(project_id, title, kwargs) ==
    SessionCall("createissue", <<project_id, title, kwargs>>, "POST",
                Format(self.projects_url, <<"/", project_id, "/issues">>),
                createissue_data(project_id, title, kwargs), EmptyDict,
                [r \in Responses |->
                    IF r.status_code = 201 THEN Return(json_loads(r.content))
                    ELSE Return(PyFalse)])

\* lines 895-898
createmilestone_data(project_id, title, kwargs) ==
    Update([id |-> project_id, title |-> title], kwargs)

\* lines 885-906
createmilestone(project_id, title, kwargs) ==
    SessionCall("createmilestone", <<project_id, title, kwargs>>, "POST",
                Format(self.projects_url, <<"/", project_id, "/milestones">>),
                createmilestone_data(project_id, title, kwargs), EmptyDict,
                [r \in Responses |->
                    IF r.status_code = 201 THEN Return(json_loads(r.content))
                    ELSE Return(PyFalse)])

-----------------------------------------------------------------------------
(* Edit operations *)

\* lines 173-176
edituser_data(kwargs) == Update(EmptyDict, kwargs)

\* lines 164-184
edituser(user_id, kwargs) ==
    SessionCall("edituser", <<user_id, kwargs>>, "PUT",
                Format(self.users_url, <<"/", user_id>>),
                edituser_data(kwargs), EmptyDict,
                [r \in Responses |->
                    IF r.status_code = 200 THEN Return(json_loads(r.content))
                    ELSE Return(PyFalse)])

\* lines 845-847
editissue_data(project_id, issue_id, kwargs) ==
    Update([id |-> project_id, issue_id |-> issue_id], kwargs)

\* lines 838-853
editissue(project_id, issue_id, kwargs) ==
    SessionCall("editissue", <<project_id, issue_id, kwargs>>, "PUT",
                Format(self.projects_url, <<"/", project_id, "/issues/", issue_id>>),
                editissue_data(project_id, issue_id, kwargs), EmptyDict,
                [r \in Responses |->
                    IF r.status_code = 200 THEN Return(json_loads(r.content))
                    ELSE Return(PyFalse)])

\* lines 920-922
editmilestone_data(project_id, milestone_id, kwargs) ==
    Update([id |-> project_id, milestone_id |-> milestone_id], kwargs)

\* lines 908-929
editmilestone(project_id, milestone_id, kwargs) ==
    SessionCall("editmilestone", <<project_id, milestone_id, kwargs>>, "PUT",
                Format(self.projects_url,
                       <<"/", project_id, "/milestones/", milestone_id>>),
                editmilestone_data(project_id, milestone_id, kwargs), EmptyDict,
                [r \in Responses |->
                    IF r.status_code = 200 THEN Return(json_loads(r.content))
                    ELSE Return(PyFalse)])

\* lines 1133-1136
updatemergerequest_data(kwargs) == Update(EmptyDict, kwargs)

\* the failure left without a return statement
updatemergerequest_silent(project_id, mergerequest_id, kwargs) ==
    SessionCall("updatemergerequest", <<project_id, mergerequest_id, kwargs>>, "PUT",
                Format(self.projects_url,
                       <<"/", project_id, "/merge_request/", mergerequest_id>>),
                updatemergerequest_data(kwargs), EmptyDict,
                [r \in Responses |->
                    IF r.status_code = 200 THEN Return(PyTrue)
                    ELSE Return(PyNone)])

\* lines 1122-1144
updatemergerequest(project_id, mergerequest_id, kwargs) ==
    SessionCall("updatemergerequest", <<project_id, mergerequest_id, kwargs>>, "PUT",
                Format(self.projects_url,
                       <<"/", project_id, "/merge_request/", mergerequest_id>>),
                updatemergerequest_data(kwargs), EmptyDict,
                [r \in Responses |->
                    IF r.status_code = 200 THEN Return(PyTrue)
                    ELSE Return(PyFalse)])

\* lines 551-567
editprojecthook(project_id, hook_id, url) ==
    SessionCall("editprojecthook", <<project_id, hook_id, url>>, "PUT",
                Format(self.projects_url, <<"/", project_id, "/hooks/", hook_id>>),
                [id |-> project_id, hook_id |-> hook_id, url |-> url], EmptyDict,
                [r \in Responses |->
                    IF r.status_code = 200 THEN Return(PyTrue)
                    ELSE Return(PyFalse)])

\* lines 1853-1868
editlabel(project_id, name, new_name, color) ==
    SessionCall("editlabel", <<project_id, name, new_name, color>>, "PUT",
                Format(self.projects_url, <<"/", project_id, "/labels">>),
                [name |-> name, new_name |-> new_name, color |-> color], EmptyDict,
                [r \in Responses |->
                    IF r.status_code = 200 THEN Return(json_loads(r.content))
                    ELSE Return(PyFalse)])

-----------------------------------------------------------------------------
(* Members of projects and groups *)

\* An access-level name is a sequence of characters, since the methods
\* compare its lower-case form.
UpperCase ==
    <<"A", "B", "C", "D", "E", "F", "G", "H", "I", "J", "K", "L", "M",
      "N", "O", "P", "Q", "R", "S", "T", "U", "V", "W", "X", "Y", "Z">>
LowerCase ==
    <<"a", "b", "c", "d", "e", "f", "g", "h", "i", "j", "k", "l", "m",
      "n", "o", "p", "q", "r", "s", "t", "u", "v", "w", "x", "y", "z">>

\* str.lower(): every upper-case letter becomes its lower-case letter, every
\* other character stays
Lower(s) ==
    [i \in DOMAIN s |->
        IF \E j \in DOMAIN UpperCase : UpperCase[j] = s[i]
        THEN LowerCase[CHOOSE j \in DOMAIN UpperCase : UpperCase[j] = s[i]]
        ELSE s[i]]

NameOwner == <<"o", "w", "n", "e", "r">>
NameMaster == <<"m", "a", "s", "t", "e", "r">>
NameDeveloper == <<"d", "e", "v", "e", "l", "o", "p", "e", "r">>
NameReporter == <<"r", "e", "p", "o", "r", "t", "e", "r">>
NameGuest == <<"g", "u", "e", "s", "t">>

\* the access-level names a caller passes
AccessNames ==
    {<<"m", "a", "s", "t", "e", "r">>,
     <<"M", "a", "s", "t", "e", "r">>,
     <<"M", "A", "S", "T", "E", "R">>,
     <<"d", "e", "v", "e", "l", "o", "p", "e", "r">>,
     <<"D", "e", "v", "e", "l", "o", "p", "e", "r">>,
     <<"r", "e", "p", "o", "r", "t", "e", "r">>,
     <<"R", "E", "P", "O", "R", "T", "E", "R">>,
     <<"g", "u", "e", "s", "t">>,
     <<"G", "u", "e", "s", "t">>,
     <<"o", "w", "n", "e", "r">>,
     <<"O", "w", "n", "e", "r">>,
     <<"a", "d", "m", "i", "n">>,
     << >>}

\* the access levels a caller passes as integers
AccessCodes == {10, 50, 25}

\* lines 451-458
addprojectmember_level(access_level) ==
    IF Lower(access_level) = NameMaster THEN 40
    ELSE IF Lower(access_level) = NameDeveloper THEN 30
    ELSE IF Lower(access_level) = NameReporter THEN 20
    ELSE 10

\* lines 442-466
addprojectmember(project_id, user_id, access_level) ==
    SessionCall("addprojectmember", <<project_id, user_id, access_level>>, "POST",
                Format(self.projects_url, <<"/", project_id, "/members">>),
                [id |-> project_id, user_id |-> user_id,
                 access_level |-> addprojectmember_level(access_level)],
                EmptyDict,
                [r \in Responses |->
                    IF r.status_code = 201 THEN Return(PyTrue)
                    ELSE Return(PyFalse)])

\* the comparisons without .lower()
editprojectmember_level_exact(access_level) ==
    IF access_level = NameMaster THEN 40
    ELSE IF access_level = NameDeveloper THEN 30
    ELSE IF access_level = NameReporter THEN 20
    ELSE 10

\* lines 476-483
editprojectmember_level(access_level) ==
    IF Lower(access_level) = NameMaster THEN 40
    ELSE IF Lower(access_level) = NameDeveloper THEN 30
    ELSE IF Lower(access_level) = NameReporter THEN 20
    ELSE 10

\* lines 468-493
editprojectmember(project_id, user_id, access_level) ==
    SessionCall("editprojectmember", <<project_id, user_id, access_level>>, "PUT",
                Format(self.projects_url, <<"/", project_id, "/members/", user_id>>),
                [id |-> project_id, user_id |-> user_id,
                 access_level |-> editprojectmember_level(access_level)],
                EmptyDict,
                [r \in Responses |->
                    IF r.status_code = 200 THEN Return(PyTrue)
                    ELSE Return(PyFalse)])

PyInt(n) == [t |-> "int", v |-> n]

\* an unknown name defaulting to guest, as for project members
addgroupmember_level_default(access_level) ==
    IF access_level.t = "int" THEN [known |-> TRUE, code |-> access_level.v]
    ELSE IF Lower(access_level.v) = NameOwner THEN [known |-> TRUE, code |-> 50]
    ELSE IF Lower(access_level.v) = NameMaster THEN [known |-> TRUE, code |-> 40]
    ELSE IF Lower(access_level.v) = NameDeveloper THEN [known |-> TRUE, code |-> 30]
    ELSE IF Lower(access_level.v) = NameReporter THEN [known |-> TRUE, code |-> 20]
    ELSE [known |-> TRUE, code |-> 10]

\* lines 1549-1561: an integer is kept; a name is translated, and a name the
\* method does not know ends the call
addgroupmember_level(access_level) ==
    IF access_level.t = "int" THEN [known |-> TRUE, code |-> access_level.v]
    ELSE IF Lower(access_level.v) = NameOwner THEN [known |-> TRUE, code |-> 50]
    ELSE IF Lower(access_level.v) = NameMaster THEN [known |-> TRUE, code |-> 40]
    ELSE IF Lower(access_level.v) = NameDeveloper THEN [known |-> TRUE, code |-> 30]
    ELSE IF Lower(access_level.v) = NameReporter THEN [known |-> TRUE, code |-> 20]
    ELSE IF Lower(access_level.v) = NameGuest THEN [known |-> TRUE, code |-> 10]
    ELSE [known |-> FALSE, code |-> 0]

\* line 1561 returns before self.headers is read or a request is made
addgroupmember(group_id, user_id, access_level) ==
    LET level == addgroupmember_level(access_level)
    IN  IF level.known
        THEN SessionCall("addgroupmember", <<group_id, user_id, access_level>>, "POST",
                         Format(self.groups_url, <<"/", group_id, "/members">>),
                         [id |-> group_id, user_id |-> user_id,
                          access_level |-> level.code],
                         EmptyDict,
                         [r \in Responses |->
                             IF r.status_code = 201 THEN Return(PyTrue)
                             ELSE Return(PyFalse)])
        ELSE /\ phase = "ready"
             /\ call' = [op |-> "addgroupmember",
                         args |-> <<group_id, user_id, access_level>>]
             /\ sent' = << >>
             /\ request' = NoResponse
             /\ outcome' = Return(PyFalse)
             /\ written' = << >>
             /\ UNCHANGED <<phase, self, logged, sudoed, threads, remembered>>

-----------------------------------------------------------------------------
(* List operations *)

\* lines 186-198
getsshkeys(page, per_page) ==
    SessionCall("getsshkeys", <<page, per_page>>, "GET",
                self.keys_url,
                EmptyDict, [page |-> page, per_page |-> per_page],
                [r \in Responses |->
                    IF r.status_code = 200 THEN Return(json_loads(r.content))
                    ELSE Return(PyFalse)])

\* the body decoded whatever the status
getprojects_unchecked(page, per_page) ==
    SessionCall("getprojects", <<page, per_page>>, "GET",
                self.projects_url,
                EmptyDict, [page |-> page, per_page |-> per_page],
                [r \in Responses |-> Return(json_loads(r.content))])

\* lines 263-278
getprojects(page, per_page) ==
    SessionCall("getprojects", <<page, per_page>>, "GET",
                self.projects_url,
                EmptyDict, [page |-> page, per_page |-> per_page],
                [r \in Responses |->
                    IF r.status_code = 200 THEN Return(json_loads(r.content))
                    ELSE Return(PyFalse)])

\* lines 280-295
getprojectsall(page, per_page) ==
    SessionCall("getprojectsall", <<page, per_page>>, "GET",
                Format(self.projects_url, <<"/all">>),
                EmptyDict, [page |-> page, per_page |-> per_page],
                [r \in Responses |->
                    IF r.status_code = 200 THEN Return(json_loads(r.content))
                    ELSE Return(PyFalse)])

\* lines 297-312
getprojectsowned(page, per_page) ==
    SessionCall("getprojectsowned", <<page, per_page>>, "GET",
                Format(self.projects_url, <<"/owned">>),
                EmptyDict, [page |-> page, per_page |-> per_page],
                [r \in Responses |->
                    IF r.status_code = 200 THEN Return(json_loads(r.content))
                    ELSE Return(PyFalse)])

\* lines 328-344
getprojectevents(project_id, page, per_page) ==
    SessionCall("getprojectevents", <<project_id, page, per_page>>, "GET",
                Format(self.projects_url, <<"/", project_id, "/events">>),
                EmptyDict, [page |-> page, per_page |-> per_page],
                [r \in Responses |->
                    IF r.status_code = 200 THEN Return(json_loads(r.content))
                    ELSE Return(PyFalse)])

\* lines 507-519
getprojecthooks(project_id, page, per_page) ==
    SessionCall("getprojecthooks", <<project_id, page, per_page>>, "GET",
                Format(self.projects_url, <<"/", project_id, "/hooks">>),
                EmptyDict, [page |-> page, per_page |-> per_page],
                [r \in Responses |->
                    IF r.status_code = 200 THEN Return(json_loads(r.content))
                    ELSE Return(PyFalse)])

\* lines 583-593
getsystemhooks(page, per_page) ==
    SessionCall("getsystemhooks", <<page, per_page>>, "GET",
                self.hook_url,
                EmptyDict, [page |-> page, per_page |-> per_page],
                [r \in Responses |->
                    IF r.status_code = 200 THEN Return(json_loads(r.content))
                    ELSE Return(PyFalse)])

\* lines 637-649
getbranches(project_id, page, per_page) ==
    SessionCall("getbranches", <<project_id, page, per_page>>, "GET",
                Format(self.projects_url, <<"/", project_id, "/repository/branches">>),
                EmptyDict, [page |-> page, per_page |-> per_page],
                [r \in Responses |->
                    IF r.status_code = 200 THEN Return(json_loads(r.content))
                    ELSE Return(PyFalse)])

\* lines 773-787
getissues(page, per_page) ==
    SessionCall("getissues", <<page, per_page>>, "GET",
                Format(self.host, <<"/api/v3/issues">>),
                EmptyDict, [page |-> page, per_page |-> per_page],
                [r \in Responses |->
                    IF r.status_code = 200 THEN Return(json_loads(r.content))
                    ELSE Return(PyFalse)])

\* lines 789-804
getprojectissues(project_id, page, per_page) ==
    SessionCall("getprojectissues", <<project_id, page, per_page>>, "GET",
                Format(self.projects_url, <<"/", project_id, "/issues">>),
                EmptyDict, [page |-> page, per_page |-> per_page],
                [r \in Responses |->
                    IF r.status_code = 200 THEN Return(json_loads(r.content))
                    ELSE Return(PyFalse)])

\* lines 855-868
getmilestones(project_id, page, per_page) ==
    SessionCall("getmilestones", <<project_id, page, per_page>>, "GET",
                Format(self.projects_url, <<"/", project_id, "/milestones">>),
                EmptyDict, [page |-> page, per_page |-> per_page],
                [r \in Responses |->
                    IF r.status_code = 200 THEN Return(json_loads(r.content))
                    ELSE Return(PyFalse)])

\* lines 931-944
getdeploykeys(project_id, page, per_page) ==
    SessionCall("getdeploykeys", <<project_id, page, per_page>>, "GET",
                Format(self.projects_url, <<"/", project_id, "/keys">>),
                EmptyDict, [page |-> page, per_page |-> per_page],
                [r \in Responses |->
                    IF r.status_code = 200 THEN Return(json_loads(r.content))
                    ELSE Return(PyFalse)])

\* lines 1081-1096
getmergerequestcomments(project_id, mergerequest_id, page, per_page) ==
    SessionCall("getmergerequestcomments", <<project_id, mergerequest_id, page, per_page>>, "GET",
                Format(self.projects_url, <<"/", project_id, "/merge_request/", mergerequest_id, "/comments">>),
                EmptyDict, [page |-> page, per_page |-> per_page],
                [r \in Responses |->
                    IF r.status_code = 200 THEN Return(json_loads(r.content))
                    ELSE Return(PyFalse)])

\* lines 1179-1191
getsnippets(project_id, page, per_page) ==
    SessionCall("getsnippets", <<project_id, page, per_page>>, "GET",
                Format(self.projects_url, <<"/", project_id, "/snippets">>),
                EmptyDict, [page |-> page, per_page |-> per_page],
                [r \in Responses |->
                    IF r.status_code = 200 THEN Return(json_loads(r.content))
                    ELSE Return(PyFalse)])

\* lines 1255-1267
getrepositories(project_id, page, per_page) ==
    SessionCall("getrepositories", <<project_id, page, per_page>>, "GET",
                Format(self.projects_url, <<"/", project_id, "/repository/branches">>),
                EmptyDict, [page |-> page, per_page |-> per_page],
                [r \in Responses |->
                    IF r.status_code = 200 THEN Return(json_loads(r.content))
                    ELSE Return(PyFalse)])

\* lines 1317-1329
getrepositorytags(project_id, page, per_page) ==
    SessionCall("getrepositorytags", <<project_id, page, per_page>>, "GET",
                Format(self.projects_url, <<"/", project_id, "/repository/tags">>),
                EmptyDict, [page |-> page, per_page |-> per_page],
                [r \in Responses |->
                    IF r.status_code = 200 THEN Return(json_loads(r.content))
                    ELSE Return(PyFalse)])

\* lines 1445-1457
getcontributors(project_id, page, per_page) ==
    SessionCall("getcontributors", <<project_id, page, per_page>>, "GET",
                Format(self.projects_url, <<"/", project_id, "/repository/contributors">>),
                EmptyDict, [page |-> page, per_page |-> per_page],
                [r \in Responses |->
                    IF r.status_code = 200 THEN Return(json_loads(r.content))
                    ELSE Return(PyFalse)])

\* lines 1478-1489
searchproject(search, page, per_page) ==
    SessionCall("searchproject", <<search, page, per_page>>, "GET",
                Format(self.search_url, <<"/", search>>),
                EmptyDict, [page |-> page, per_page |-> per_page],
                [r \in Responses |->
                    IF r.status_code = 200 THEN Return(json_loads(r.content))
                    ELSE Return(PyFalse)])

\* lines 1524-1538
getgroupmembers(group_id, page, per_page) ==
    SessionCall("getgroupmembers", <<group_id, page, per_page>>, "GET",
                Format(self.groups_url, <<"/", group_id, "/members">>),
                EmptyDict, [page |-> page, per_page |-> per_page],
                [r \in Responses |->
                    IF r.status_code = 200 THEN Return(json_loads(r.content))
                    ELSE Return(PyFalse)])

\* lines 1584-1595
getissuewallnotes(project_id, issue_id, page, per_page) ==
    SessionCall("getissuewallnotes", <<project_id, issue_id, page, per_page>>, "GET",
                Format(self.projects_url, <<"/", project_id, "/issues/", issue_id, "/notes">>),
                EmptyDict, [page |-> page, per_page |-> per_page],
                [r \in Responses |->
                    IF r.status_code = 200 THEN Return(json_loads(r.content))
                    ELSE Return(PyFalse)])

\* lines 1622-1633
getsnippetwallnotes(project_id, snippet_id, page, per_page) ==
    SessionCall("getsnippetwallnotes", <<project_id, snippet_id, page, per_page>>, "GET",
                Format(self.projects_url, <<"/", project_id, "/snippets/", snippet_id, "/notes">>),
                EmptyDict, [page |-> page, per_page |-> per_page],
                [r \in Responses |->
                    IF r.status_code = 200 THEN Return(json_loads(r.content))
                    ELSE Return(PyFalse)])

\* lines 1660-1671
getmergerequestwallnotes(project_id, merge_request_id, page, per_page) ==
    SessionCall("getmergerequestwallnotes", <<project_id, merge_request_id, page, per_page>>, "GET",
                Format(self.projects_url, <<"/", project_id, "/merge_requests/", merge_request_id, "/notes">>),
                EmptyDict, [page |-> page, per_page |-> per_page],
                [r \in Responses |->
                    IF r.status_code = 200 THEN Return(json_loads(r.content))
                    ELSE Return(PyFalse)])

\* lines 1804-1817
getlabels(project_id, page, per_page) ==
    SessionCall("getlabels", <<project_id, page, per_page>>, "GET",
                Format(self.projects_url, <<"/", project_id, "/labels">>),
                EmptyDict, [page |-> page, per_page |-> per_page],
                [r \in Responses |->
                    IF r.status_code = 200 THEN Return(json_loads(r.content))
                    ELSE Return(PyFalse)])

\* lines 430-432
getprojectmembers_params(query, page, per_page) ==
    LET data == [page |-> page, per_page |-> per_page]
    IN  IF Truthy(query) THEN SetItem(data, "query", query) ELSE data

\* lines 421-440
getprojectmembers(project_id, query, page, per_page) ==
    SessionCall("getprojectmembers", <<project_id, query, page, per_page>>, "GET",
                Format(self.projects_url, <<"/", project_id, "/members">>),
                EmptyDict, getprojectmembers_params(query, page, per_page),
                [r \in Responses |->
                    IF r.status_code = 200 THEN Return(json_loads(r.content))
                    ELSE Return(PyFalse)])

\* lines 1011-1028: without a group the URL ends in the slash
getgroups(group_id, page, per_page) ==
    SessionCall("getgroups", <<group_id, page, per_page>>, "GET",
                Format(self.groups_url,
                       <<"/", IF Truthy(group_id) THEN group_id ELSE "">>),
                EmptyDict, [page |-> page, per_page |-> per_page],
                [r \in Responses |->
                    IF r.status_code = 200 THEN Return(json_loads(r.content))
                    ELSE Return(PyFalse)])

\* line 1054: the key state is set whether or not a state was given
getmergerequests_params(page, per_page, state) ==
    [page |-> page, per_page |-> per_page, state |-> state]

\* lines 1046-1063
getmergerequests(project_id, page, per_page, state) ==
    SessionCall("getmergerequests", <<project_id, page, per_page, state>>, "GET",
                Format(self.projects_url, <<"/", project_id, "/merge_requests">>),
                EmptyDict, getmergerequests_params(page, per_page, state),
                [r \in Responses |->
                    IF r.status_code = 200 THEN Return(json_loads(r.content))
                    ELSE Return(PyFalse)])

\* lines 1357-1359
getrepositorycommits_params(ref_name, page, per_page) ==
    LET data == [page |-> page, per_page |-> per_page]
    IN  IF ref_name # None THEN Update(data, [ref_name |-> ref_name]) ELSE data

\* lines 1350-1365
getrepositorycommits(project_id, ref_name, page, per_page) ==
    SessionCall("getrepositorycommits", <<project_id, ref_name, page, per_page>>, "GET",
                Format(self.projects_url, <<"/", project_id, "/repository/commits">>),
                EmptyDict, getrepositorycommits_params(ref_name, page, per_page),
                [r \in Responses |->
                    IF r.status_code = 200 THEN Return(json_loads(r.content))
                    ELSE Return(PyFalse)])

\* lines 1403-1405: the query holds the named fields of the call and nothing
\* else; the method has no page or per_page parameter
getrepositorytree_params(kwargs) == Update(EmptyDict, kwargs)

\* lines 1395-1412
getrepositorytree(project_id, kwargs) ==
    SessionCall("getrepositorytree", <<project_id, kwargs>>, "GET",
                Format(self.projects_url, <<"/", project_id, "/repository/tree">>),
                EmptyDict, getrepositorytree_params(kwargs),
                [r \in Responses |->
                    IF r.status_code = 200 THEN Return(json_loads(r.content))
                    ELSE Return(PyFalse)])

\* lines 609-621: the hook id travels in the body of the GET
testsystemhook(hook_id) ==
    SessionCall("testsystemhook", <<hook_id>>, "GET", self.hook_url,
                [id |-> hook_id], EmptyDict,
                [r \in Responses |->
                    IF r.status_code = 200 THEN Return(json_loads(r.content))
                    ELSE Return(PyFalse)])

-----------------------------------------------------------------------------
(* Operations that get one resource *)

\* lines 200-212
getsshkey(key_id) ==
    SessionCall("getsshkey", <<key_id>>, "GET",
                Format(self.keys_url, <<"/", key_id>>),
                EmptyDict, EmptyDict,
                [r \in Responses |->
                    IF r.status_code = 200 THEN Return(json_loads(r.content))
                    ELSE Return(PyFalse)])

\* lines 314-326
getproject(project_id) ==
    SessionCall("getproject", <<project_id>>, "GET",
                Format(self.projects_url, <<"/", project_id>>),
                EmptyDict, EmptyDict,
                [r \in Responses |->
                    IF r.status_code = 200 THEN Return(json_loads(r.content))
                    ELSE Return(PyFalse)])

\* lines 521-534
getprojecthook(project_id, hook_id) ==
    SessionCall("getprojecthook", <<project_id, hook_id>>, "GET",
                Format(self.projects_url, <<"/", project_id, "/hooks/", hook_id>>),
                EmptyDict, EmptyDict,
                [r \in Responses |->
                    IF r.status_code = 200 THEN Return(json_loads(r.content))
                    ELSE Return(PyFalse)])

\* lines 651-663
getbranch(project_id, branch) ==
    SessionCall("getbranch", <<project_id, branch>>, "GET",
                Format(self.projects_url, <<"/", project_id, "/repository/branches/", branch>>),
                EmptyDict, EmptyDict,
                [r \in Responses |->
                    IF r.status_code = 200 THEN Return(json_loads(r.content))
                    ELSE Return(PyFalse)])

\* lines 806-819
getprojectissue(project_id, issue_id) ==
    SessionCall("getprojectissue", <<project_id, issue_id>>, "GET",
                Format(self.projects_url, <<"/", project_id, "/issues/", issue_id>>),
                EmptyDict, EmptyDict,
                [r \in Responses |->
                    IF r.status_code = 200 THEN Return(json_loads(r.content))
                    ELSE Return(PyFalse)])

\* lines 870-883
getmilestone(project_id, milestone_id) ==
    SessionCall("getmilestone", <<project_id, milestone_id>>, "GET",
                Format(self.projects_url, <<"/", project_id, "/milestones/", milestone_id>>),
                EmptyDict, EmptyDict,
                [r \in Responses |->
                    IF r.status_code = 200 THEN Return(json_loads(r.content))
                    ELSE Return(PyFalse)])

\* lines 946-959
getdeploykey(project_id, key_id) ==
    SessionCall("getdeploykey", <<project_id, key_id>>, "GET",
                Format(self.projects_url, <<"/", project_id, "/keys/", key_id>>),
                EmptyDict, EmptyDict,
                [r \in Responses |->
                    IF r.status_code = 200 THEN Return(json_loads(r.content))
                    ELSE Return(PyFalse)])

\* lines 1065-1079
getmergerequest(project_id, mergerequest_id) ==
    SessionCall("getmergerequest", <<project_id, mergerequest_id>>, "GET",
                Format(self.projects_url, <<"/", project_id, "/merge_request/", mergerequest_id>>),
                EmptyDict, EmptyDict,
                [r \in Responses |->
                    IF r.status_code = 200 THEN Return(json_loads(r.content))
                    ELSE Return(PyFalse)])

\* lines 1193-1205
getsnippet(project_id, snippet_id) ==
    SessionCall("getsnippet", <<project_id, snippet_id>>, "GET",
                Format(self.projects_url, <<"/", project_id, "/snippets/", snippet_id>>),
                EmptyDict, EmptyDict,
                [r \in Responses |->
                    IF r.status_code = 200 THEN Return(json_loads(r.content))
                    ELSE Return(PyFalse)])

\* lines 1367-1379
getrepositorycommit(project_id, sha1) ==
    SessionCall("getrepositorycommit", <<project_id, sha1>>, "GET",
                Format(self.projects_url, <<"/", project_id, "/repository/commits/", sha1>>),
                EmptyDict, EmptyDict,
                [r \in Responses |->
                    IF r.status_code = 200 THEN Return(json_loads(r.content))
                    ELSE Return(PyFalse)])

\* lines 1738-1753: the path and the ref travel in the body of the GET
getfile(project_id, file_path, ref) ==
    SessionCall("getfile", <<project_id, file_path, ref>>, "GET",
                Format(self.projects_url, <<"/", project_id, "/repository/files">>),
                [file_path |-> file_path, ref |-> ref], EmptyDict,
                [r \in Responses |->
                    IF r.status_code = 200 THEN Return(json_loads(r.content))
                    ELSE Return(PyFalse)])

\* lines 154-162: the status of the response is never looked at
currentuser ==
    SessionCall("currentuser", << >>, "GET", Format(self.host, <<"/api/v3/user">>),
                EmptyDict, EmptyDict,
                [r \in Responses |-> Return(json_loads(r.content))])

\* lines 1278-1285: a 404 whose message is another one falls off the end of
\* the method, and reading the message of a body without one raises
getrepositorybranch_result(r) ==
    IF r.status_code = 200 THEN Return(json_loads(r.content))
    ELSE IF r.status_code = 404
         THEN LET message == json_field(r.content, "message")
              IN  IF message.kind = "raise" THEN message
                  ELSE IF message.value = PyStr(BranchMissingText) THEN Return(PyFalse)
                  ELSE Return(PyNone)
    ELSE Return(PyFalse)

\* lines 1269-1285
getrepositorybranch(project_id, branch) ==
    SessionCall("getrepositorybranch", <<project_id, branch>>, "GET",
                Format(self.projects_url,
                       <<"/", project_id, "/repository/branches/", branch>>),
                EmptyDict, EmptyDict,
                [r \in Responses |-> getrepositorybranch_result(r)])

-----------------------------------------------------------------------------
(* Group creation and the archive of a repository *)

\* lines 1005-1009: line 1009 hands the HttpError object to return, not to raise
creategroup_result(r) ==
    IF r.status_code = 201 THEN Return(json_loads(r.content))
    ELSE LET msg == json_field(r.content, "message")
         IN  IF msg.kind = "raise" THEN msg
             ELSE Return(PyException("HttpError", msg.value.v))

\* lines 996-1009
creategroup(name, path) ==
    SessionCall("creategroup", <<name, path>>, "POST", self.groups_url,
                [name |-> name, path |-> path], EmptyDict,
                [r \in Responses |-> creategroup_result(r)])

\* A header value and a file name are sequences of fragments in which each
\* of ; = and " is a fragment of its own.
Quote == "\""

\* s.split(sep): the pieces of s between the occurrences of sep
RECURSIVE Split(_, _)
Split(s, sep) ==
    IF \A i \in DOMAIN s : s[i] # sep THEN <<s>>
    ELSE LET i == CHOOSE k \in DOMAIN s : s[k] = sep /\ \A j \in 1..(k - 1) : s[j] # sep
         IN  <<SubSeq(s, 1, i - 1)>> \o Split(SubSeq(s, i + 1, Len(s)), sep)

\* s.strip(ch): s without the run of ch at its start and at its end
RECURSIVE Strip(_, _)
Strip(s, ch) ==
    IF s # << >> /\ s[1] = ch THEN Strip(Tail(s), ch)
    ELSE IF s # << >> /\ s[Len(s)] = ch THEN Strip(SubSeq(s, 1, Len(s) - 1), ch)
    ELSE s

\* the name taken whole from the second piece of the header
archive_filename_whole(headers) ==
    IF "content-disposition" \notin DOMAIN headers
    THEN Raise("KeyError", "content-disposition")
    ELSE LET parts == Split(headers["content-disposition"], ";")
         IN  IF Len(parts) < 2 THEN Raise("IndexError", "list index out of range")
             ELSE Return(PyStr(parts[2]))

\* line 1499: request.headers['content-disposition']
\*                .split(";")[1].split("=")[1].strip('"')
archive_filename(headers) ==
    IF "content-disposition" \notin DOMAIN headers
    THEN Raise("KeyError", "content-disposition")
    ELSE LET parts == Split(headers["content-disposition"], ";")
         IN  IF Len(parts) < 2 THEN Raise("IndexError", "list index out of range")
             ELSE LET pair == Split(parts[2], "=")
                  IN  IF Len(pair) < 2
                      THEN Raise("IndexError", "list index out of range")
                      ELSE Return(PyStr(Strip(pair[2], Quote)))

\* lines 1497-1507: how the call ends and the files it writes, for the
\* response r (with its headers) and the path the caller gave
getfilearchive_result(r, filepath) ==
    IF r.status_code = 200
    THEN LET path == IF filepath = << >> THEN archive_filename(r.headers)
                     ELSE Return(PyStr(filepath))
         IN  IF path.kind = "raise" THEN [outcome |-> path, written |-> << >>]
             ELSE [outcome |-> Return(PyTrue),
                   written |-> <<[path |-> path.value.v, content |-> r.content]>>]
    ELSE LET msg == json_field(r.content, "message")
         IN  [outcome |-> IF msg.kind = "raise" THEN msg
                          ELSE Raise("HttpError", msg.value.v),
              written |-> << >>]

\* the header values a server may answer an archive request with
ArchiveNames == {<<"f.tar.gz">>, <<"a", "=", "b">>, <<"a", ";", "b">>}
Disposition(name, quoted) ==
    <<"attachment", ";", " filename", "=">>
        \o (IF quoted THEN <<Quote>> \o name \o <<Quote>> ELSE name)
ArchiveHeaders ==
    {[h \in {} |-> << >>], [h \in {"content-disposition"} |-> <<"attachment">>]}
        \cup {[h \in {"content-disposition"} |-> Disposition(name, quoted)] :
                 name \in ArchiveNames, quoted \in BOOLEAN}

\* the paths a caller gives; the empty one is the default
FilePaths == {<< >>, <<"out.tar.gz">>}

\* lines 1491-1507
getfilearchive(project_id, filepath) ==
    /\ phase = "ready"
    /\ call' = [op |-> "getfilearchive", args |-> <<project_id, filepath>>]
    /\ UNCHANGED <<phase, self, logged, sudoed, threads, remembered>>
    /\ IF "headers" \notin DOMAIN self
       THEN /\ sent' = << >>
            /\ request' = NoResponse
            /\ written' = << >>
            /\ outcome' = Raise("AttributeError", "headers")
       ELSE \E r \in Responses, headers \in ArchiveHeaders :
            LET response == [status_code |-> r.status_code, content |-> r.content,
                             headers |-> headers]
                result == getfilearchive_result(response, filepath)
            IN  /\ sent' = <<HttpRequest("GET",
                                         Format(self.projects_url,
                                                <<"/", project_id, "/repository/archive">>),
                                         self.headers, self.verify_ssl,
                                         EmptyDict, EmptyDict)>>
                /\ request' = response
                /\ written' = result.written
                /\ outcome' = result.outcome

-----------------------------------------------------------------------------
(* The remaining operations: one request, the status decides the value *)

\* lines 214-229
addsshkey(title, key) ==
    SessionCall("addsshkey", <<title, key>>, "POST",
                self.keys_url,
                [title |-> title, key |-> key],
                EmptyDict,
                [r \in Responses |->
                    IF r.status_code = 201 THEN Return(PyTrue)
                    ELSE Return(PyFalse)])

\* lines 231-248
addsshkeyuser(user_id, title, key) ==
    SessionCall("addsshkeyuser", <<user_id, title, key>>, "POST",
                Format(self.users_url, <<"/", user_id, "/keys">>),
                [title |-> title, key |-> key],
                EmptyDict,
                [r \in Responses |->
                    IF r.status_code = 201 THEN Return(PyTrue)
                    ELSE Return(PyFalse)])

\* lines 536-549
addprojecthook(project_id, url) ==
    SessionCall("addprojecthook", <<project_id, url>>, "POST",
                Format(self.projects_url, <<"/", project_id, "/hooks">>),
                [id |-> project_id, url |-> url],
                EmptyDict,
                [r \in Responses |->
                    IF r.status_code = 201 THEN Return(PyTrue)
                    ELSE Return(PyFalse)])

\* lines 595-607
addsystemhook(url) ==
    SessionCall("addsystemhook", <<url>>, "POST",
                self.hook_url,
                [url |-> url],
                EmptyDict,
                [r \in Responses |->
                    IF r.status_code = 201 THEN Return(PyTrue)
                    ELSE Return(PyFalse)])

\* lines 665-680
createbranch(project_id, branch, ref) ==
    SessionCall("createbranch", <<project_id, branch, ref>>, "POST",
                Format(self.projects_url, <<"/", project_id, "/repository/branches">>),
                [id |-> project_id, branch_name |-> branch, ref |-> ref],
                EmptyDict,
                [r \in Responses |->
                    IF r.status_code = 201 THEN Return(json_loads(r.content))
                    ELSE Return(PyFalse)])

\* lines 698-710
protectbranch(project_id, branch) ==
    SessionCall("protectbranch", <<project_id, branch>>, "PUT",
                Format(self.projects_url, <<"/", project_id, "/repository/branches/", branch, "/protect">>),
                EmptyDict,
                EmptyDict,
                [r \in Responses |->
                    IF r.status_code = 200 THEN Return(PyTrue)
                    ELSE Return(PyFalse)])

\* lines 712-725
unprotectbranch(project_id, branch) ==
    SessionCall("unprotectbranch", <<project_id, branch>>, "PUT",
                Format(self.projects_url, <<"/", project_id, "/repository/branches/", branch, "/unprotect">>),
                EmptyDict,
                EmptyDict,
                [r \in Responses |->
                    IF r.status_code = 200 THEN Return(PyTrue)
                    ELSE Return(PyFalse)])

\* lines 727-742
createforkrelation(project_id, from_project_id) ==
    SessionCall("createforkrelation", <<project_id, from_project_id>>, "POST",
                Format(self.projects_url, <<"/", project_id, "/fork/", from_project_id>>),
                [id |-> project_id, forked_from_id |-> from_project_id],
                EmptyDict,
                [r \in Responses |->
                    IF r.status_code = 201 THEN Return(PyTrue)
                    ELSE Return(PyFalse)])

\* lines 961-979
adddeploykey(project_id, title, key) ==
    SessionCall("adddeploykey", <<project_id, title, key>>, "POST",
                Format(self.projects_url, <<"/", project_id, "/keys">>),
                [id |-> project_id, title |-> title, key |-> key],
                EmptyDict,
                [r \in Responses |->
                    IF r.status_code = 201 THEN Return(PyTrue)
                    ELSE Return(PyFalse)])

\* lines 1030-1044
moveproject(group_id, project_id) ==
    SessionCall("moveproject", <<group_id, project_id>>, "POST",
                Format(self.groups_url, <<"/", group_id, "/projects/", project_id>>),
                EmptyDict,
                EmptyDict,
                [r \in Responses |->
                    IF r.status_code = 201 THEN Return(json_loads(r.content))
                    ELSE Return(PyFalse)])

\* lines 1098-1120
createmergerequest(project_id, sourcebranch, targetbranch, title, target_project_id, assignee_id) ==
    SessionCall("createmergerequest", <<project_id, sourcebranch, targetbranch, title, target_project_id, assignee_id>>, "POST",
                Format(self.projects_url, <<"/", project_id, "/merge_requests">>),
                [source_branch |-> sourcebranch, target_branch |-> targetbranch,
                 title |-> title, assignee_id |-> assignee_id,
                 target_project_id |-> target_project_id],
                EmptyDict,
                [r \in Responses |->
                    IF r.status_code = 201 THEN Return(json_loads(r.content))
                    ELSE Return(PyFalse)])

\* lines 1146-1161
acceptmergerequest(project_id, mergerequest_id, merge_commit_message) ==
    SessionCall("acceptmergerequest", <<project_id, mergerequest_id, merge_commit_message>>, "PUT",
                Format(self.projects_url, <<"/", project_id, "/merge_request/", mergerequest_id, "/merge">>),
                [merge_commit_message |-> merge_commit_message],
                EmptyDict,
                [r \in Responses |->
                    IF r.status_code = 200 THEN Return(PyTrue)
                    ELSE Return(PyFalse)])

\* lines 1163-1177
addcommenttomergerequest(project_id, mergerequest_id, note) ==
    SessionCall("addcommenttomergerequest", <<project_id, mergerequest_id, note>>, "POST",
                Format(self.projects_url, <<"/", project_id, "/merge_request/", mergerequest_id, "/comments">>),
                [note |-> note],
                EmptyDict,
                [r \in Responses |->
                    IF r.status_code = 201 THEN Return(PyTrue)
                    ELSE Return(PyFalse)])

\* lines 1207-1225: the lifetime is sent only when it is not the empty string
createsnippet(project_id, title, file_name, code, lifetime) ==
    SessionCall("createsnippet", <<project_id, title, file_name, code, lifetime>>, "POST",
                Format(self.projects_url, <<"/", project_id, "/snippets">>),
                IF lifetime # ""
                THEN [id |-> project_id, title |-> title, file_name |-> file_name,
                      code |-> code, lifetime |-> lifetime]
                ELSE [id |-> project_id, title |-> title, file_name |-> file_name,
                      code |-> code],
                EmptyDict,
                [r \in Responses |->
                    IF r.status_code = 201 THEN Return(json_loads(r.content))
                    ELSE Return(PyFalse)])

\* lines 1227-1239: the body is returned as text, undecoded
getsnippetcontent(project_id, snippet_id) ==
    SessionCall("getsnippetcontent", <<project_id, snippet_id>>, "GET",
                Format(self.projects_url, <<"/", project_id, "/snippets/", snippet_id, "/raw">>),
                EmptyDict,
                EmptyDict,
                [r \in Responses |->
                    IF r.status_code = 200 THEN Return(PyStr(r.content))
                    ELSE Return(PyFalse)])

\* lines 1287-1300
protectrepositorybranch(project_id, branch) ==
    SessionCall("protectrepositorybranch", <<project_id, branch>>, "PUT",
                Format(self.projects_url, <<"/", project_id, "/repository/branches/", branch, "/protect">>),
                EmptyDict,
                EmptyDict,
                [r \in Responses |->
                    IF r.status_code = 200 THEN Return(json_loads(r.content))
                    ELSE Return(PyFalse)])

\* lines 1302-1315: the else branch is a bare return
unprotectrepositorybranch(project_id, branch) ==
    SessionCall("unprotectrepositorybranch", <<project_id, branch>>, "PUT",
                Format(self.projects_url, <<"/", project_id, "/repository/branches/", branch, "/unprotect">>),
                EmptyDict,
                EmptyDict,
                [r \in Responses |->
                    IF r.status_code = 200 THEN Return(json_loads(r.content))
                    ELSE Return(PyNone)])

\* lines 1331-1348
createrepositorytag(project_id, tag_name, ref, message) ==
    SessionCall("createrepositorytag", <<project_id, tag_name, ref, message>>, "POST",
                Format(self.projects_url, <<"/", project_id, "/repository/tags">>),
                [id |-> project_id, tag_name |-> tag_name, ref |-> ref, message |-> message],
                EmptyDict,
                [r \in Responses |->
                    IF r.status_code = 201 THEN Return(json_loads(r.content))
                    ELSE Return(PyFalse)])

\* lines 1381-1393
getrepositorycommitdiff(project_id, sha1) ==
    SessionCall("getrepositorycommitdiff", <<project_id, sha1>>, "GET",
                Format(self.projects_url, <<"/", project_id, "/repository/commits/", sha1, "/diff">>),
                EmptyDict,
                EmptyDict,
                [r \in Responses |->
                    IF r.status_code = 200 THEN Return(json_loads(r.content))
                    ELSE Return(PyFalse)])

\* lines 1414-1429: the path travels in the query; the body is returned as text
getrawfile(project_id, sha1, filepath) ==
    SessionCall("getrawfile", <<project_id, sha1, filepath>>, "GET",
                Format(self.projects_url, <<"/", project_id, "/repository/blobs/", sha1>>),
                EmptyDict,
                [filepath |-> filepath],
                [r \in Responses |->
                    IF r.status_code = 200 THEN Return(PyStr(r.content))
                    ELSE Return(PyFalse)])

\* lines 1431-1443: the body is returned as text, undecoded
getrawblob(project_id, sha1) ==
    SessionCall("getrawblob", <<project_id, sha1>>, "GET",
                Format(self.projects_url, <<"/", project_id, "/repository/raw_blobs/", sha1>>),
                EmptyDict,
                EmptyDict,
                [r \in Responses |->
                    IF r.status_code = 200 THEN Return(PyStr(r.content))
                    ELSE Return(PyFalse)])

\* lines 1459-1476
compare_branches_tags_commits(project_id, from_id, to_id) ==
    SessionCall("compare_branches_tags_commits", <<project_id, from_id, to_id>>, "GET",
                Format(self.projects_url, <<"/", project_id, "/repository/compare">>),
                EmptyDict,
                [from |-> from_id, to |-> to_id],
                [r \in Responses |->
                    IF r.status_code = 200 THEN Return(json_loads(r.content))
                    ELSE Return(PyFalse)])

\* lines 1597-1607
getissuewallnote(project_id, issue_id, note_id) ==
    SessionCall("getissuewallnote", <<project_id, issue_id, note_id>>, "GET",
                Format(self.projects_url, <<"/", project_id, "/issues/", issue_id, "/notes/", note_id>>),
                EmptyDict,
                EmptyDict,
                [r \in Responses |->
                    IF r.status_code = 200 THEN Return(json_loads(r.content))
                    ELSE Return(PyFalse)])

\* lines 1609-1620
createissuewallnote(project_id, issue_id, content) ==
    SessionCall("createissuewallnote", <<project_id, issue_id, content>>, "POST",
                Format(self.projects_url, <<"/", project_id, "/issues/", issue_id, "/notes">>),
                [body |-> content],
                EmptyDict,
                [r \in Responses |->
                    IF r.status_code = 201 THEN Return(json_loads(r.content))
                    ELSE Return(PyFalse)])

\* lines 1635-1645
getsnippetwallnote(project_id, snippet_id, note_id) ==
    SessionCall("getsnippetwallnote", <<project_id, snippet_id, note_id>>, "GET",
                Format(self.projects_url, <<"/", project_id, "/snippets/", snippet_id, "/notes/", note_id>>),
                EmptyDict,
                EmptyDict,
                [r \in Responses |->
                    IF r.status_code = 200 THEN Return(json_loads(r.content))
                    ELSE Return(PyFalse)])

\* lines 1647-1658
createsnippetewallnote(project_id, snippet_id, content) ==
    SessionCall("createsnippetewallnote", <<project_id, snippet_id, content>>, "POST",
                Format(self.projects_url, <<"/", project_id, "/snippets/", snippet_id, "/notes">>),
                [body |-> content],
                EmptyDict,
                [r \in Responses |->
                    IF r.status_code = 201 THEN Return(json_loads(r.content))
                    ELSE Return(PyFalse)])

\* lines 1673-1684
getmergerequestwallnote(project_id, merge_request_id, note_id) ==
    SessionCall("getmergerequestwallnote", <<project_id, merge_request_id, note_id>>, "GET",
                Format(self.projects_url, <<"/", project_id, "/merge_requests/", merge_request_id, "/notes/", note_id>>),
                EmptyDict,
                EmptyDict,
                [r \in Responses |->
                    IF r.status_code = 200 THEN Return(json_loads(r.content))
                    ELSE Return(PyFalse)])

\* lines 1686-1697
createmergerequestewallnote(project_id, merge_request_id, content) ==
    SessionCall("createmergerequestewallnote", <<project_id, merge_request_id, content>>, "POST",
                Format(self.projects_url, <<"/", project_id, "/merge_requests/", merge_request_id, "/notes">>),
                [body |-> content],
                EmptyDict,
                [r \in Responses |->
                    IF r.status_code = 201 THEN Return(json_loads(r.content))
                    ELSE Return(PyFalse)])

\* lines 1699-1716
createfile(project_id, file_path, branch_name, content, commit_message) ==
    SessionCall("createfile", <<project_id, file_path, branch_name, content, commit_message>>, "POST",
                Format(self.projects_url, <<"/", project_id, "/repository/files">>),
                [file_path |-> file_path, branch_name |-> branch_name,
                 content |-> content, commit_message |-> commit_message],
                EmptyDict,
                [r \in Responses |->
                    IF r.status_code = 201 THEN Return(PyTrue)
                    ELSE Return(PyFalse)])

\* lines 1718-1736
updatefile(project_id, file_path, branch_name, content, commit_message) ==
    SessionCall("updatefile", <<project_id, file_path, branch_name, content, commit_message>>, "PUT",
                Format(self.projects_url, <<"/", project_id, "/repository/files">>),
                [file_path |-> file_path, branch_name |-> branch_name,
                 content |-> content, commit_message |-> commit_message],
                EmptyDict,
                [r \in Responses |->
                    IF r.status_code = 200 THEN Return(PyTrue)
                    ELSE Return(PyFalse)])

\* lines 1774-1789
setgitlabciservice(project_id, token, project_url) ==
    SessionCall("setgitlabciservice", <<project_id, token, project_url>>, "PUT",
                Format(self.projects_url, <<"/", project_id, "/services/gitlab-ci">>),
                [token |-> token, project_url |-> project_url],
                EmptyDict,
                [r \in Responses |->
                    IF r.status_code = 200 THEN Return(PyTrue)
                    ELSE Return(PyFalse)])

\* lines 1819-1834
createlabel(project_id, name, color) ==
    SessionCall("createlabel", <<project_id, name, color>>, "POST",
                Format(self.projects_url, <<"/", project_id, "/labels">>),
                [name |-> name, color |-> color],
                EmptyDict,
                [r \in Responses |->
                    IF r.status_code = 201 THEN Return(json_loads(r.content))
                    ELSE Return(PyFalse)])

-----------------------------------------------------------------------------
(* Calls from several threads *)

\* The methods take no lock, so the steps of calls made from several threads
\* interleave.  A thread in getusers first enters requests.get with a
\* reference to the dict self.headers (lines 96-97); the library copies the
\* entries of that dict when it prepares the request, later.  A thread in
\* setsudo first enters the method, then stores into (or pops from) the dict
\* (lines 77-83): one dict operation, which the interpreter does not split.

Threads == {"T1", "T2"}

\* a thread between calls: pc is its position, user the argument of the
\* setsudo it is in, asked whether it ever called setsudo with a user, began
\* the headers of the client when its getusers call was entered, req the
\* request that call sent
IdleThread ==
    [pc |-> "idle", user |-> None, asked |-> FALSE, began |-> EmptyDict, req |-> << >>]

\* lines 93-97: the arguments of requests.get are evaluated
getusers_enter(t) ==
    /\ phase = "ready"
    /\ "headers" \in DOMAIN self
    /\ threads[t].pc = "idle"
    /\ threads' = [threads EXCEPT ![t].pc = "built", ![t].began = self.headers,
                                  ![t].req = << >>]
    /\ UNCHANGED <<phase, self, call, outcome, sent, request, written, logged,
                   sudoed, remembered>>

\* lines 96-97: the request is prepared from the entries the dict holds now,
\* and sent
getusers_send(t) ==
    /\ threads[t].pc = "built"
    /\ threads' = [threads EXCEPT
                      ![t].pc = "sent",
                      ![t].req = <<HttpRequest("GET", self.users_url, self.headers,
                                               self.verify_ssl, EmptyDict,
                                               getusers_params(None, 1, 20))>>]
    /\ UNCHANGED <<phase, self, call, outcome, sent, request, written, logged,
                   sudoed, remembered>>

\* lines 98-101: the response arrives and the method returns
getusers_return(t) ==
    /\ threads[t].pc = "sent"
    /\ threads' = [threads EXCEPT ![t].pc = "idle"]
    /\ UNCHANGED <<phase, self, call, outcome, sent, request, written, logged,
                   sudoed, remembered>>

\* line 71: the method is entered
setsudo_enter(t, user) ==
    /\ phase = "ready"
    /\ "headers" \in DOMAIN self
    /\ threads[t].pc = "idle"
    /\ threads' = [threads EXCEPT ![t].pc = "storing", ![t].user = user,
                                  ![t].asked = @ \/ user # None]
    /\ UNCHANGED <<phase, self, call, outcome, sent, request, written, logged,
                   sudoed, remembered>>

\* lines 77-83: the store into the dict, or the pop
setsudo_store(t) ==
    /\ threads[t].pc = "storing"
    /\ self' = SetAttr(self, "headers", setsudo_headers(self.headers, threads[t].user))
    /\ sudoed' = threads[t].user
    /\ threads' = [threads EXCEPT ![t].pc = "idle", ![t].user = None]
    /\ UNCHANGED <<phase, call, outcome, sent, request, written, logged, remembered>>

-----------------------------------------------------------------------------
(* Specifications *)

Init ==
    /\ phase = "new"
    /\ self = NoAttrs
    /\ call = [op |-> "", args |-> << >>]
    /\ outcome = Idle
    /\ sent = << >>
    /\ request = NoResponse
    /\ written = << >>
    /\ logged = None
    /\ sudoed = None
    /\ threads = [t \in Threads |-> IdleThread]
    /\ remembered = << >>

Next ==
    \/ \E host \in SessionHosts, token \in Tokens, verify_ssl \in BOOLEAN :
          __init__(host, token, verify_ssl)
    \/ \E email \in Emails \cup {None}, password \in Passwords, user \in Users \cup {None} :
          login(email, password, user)
    \/ \E user \in Users \cup {None} : setsudo(user)
    \/ \E search \in {None, "s"} : getusers(search, 1, 20)
    \/ \E user_id \in Ids : getuser(user_id)
    \/ \E kwargs \in Kwargs : createuser("n1", "u1", "p1", "e1", kwargs)
    \/ \E user_id \in Ids : deleteuser(user_id)
    \/ \E key_id \in Ids : deletesshkey(key_id)
    \/ \E kwargs \in Kwargs : createproject("n1", kwargs)
    \/ \E project_id \in Ids : deleteproject(project_id)
    \/ \E project_id \in Ids, user_id \in Ids : deleteprojectmember(project_id, user_id)
    \/ \E project_id \in Ids, hook_id \in Ids : deleteprojecthook(project_id, hook_id)
    \/ \E hook_id \in Ids : deletesystemhook(hook_id)
    \/ \E project_id \in Ids : deletebranch(project_id, "b1")
    \/ \E project_id \in Ids : removeforkrelation(project_id)
    \/ \E project_id \in Ids : createfork(project_id)
    \/ \E project_id \in Ids, key_id \in Ids : deletedeploykey(project_id, key_id)
    \/ \E project_id \in Ids, snippet_id \in Ids : deletesnippet(project_id, snippet_id)
    \/ \E group_id \in Ids : deletegroup(group_id)
    \/ \E group_id \in Ids, user_id \in Ids : deletegroupmember(group_id, user_id)
    \/ \E project_id \in Ids : deletefile(project_id, "f1", "b1", "m1")
    \/ \E project_id \in Ids : deletegitlabciservice(project_id, "c1", "http://ci")
    \/ \E project_id \in Ids : deletelabel(project_id, "l1")

Spec == Init /\ [][Next]_vars

\* construction alone, over every host
NextConstruct ==
    \E host \in Hosts, token \in Tokens, verify_ssl \in BOOLEAN :
        __init__(host, token, verify_ssl)

SpecConstruct == Init /\ [][NextConstruct]_vars

\* construction of a client over the hosts of a session
Construct ==
    \E host \in SessionHosts, token \in Tokens, verify_ssl \in BOOLEAN :
        __init__(host, token, verify_ssl)

\* the create operations that accept extra named fields
NextCreate ==
    \/ Construct
    \/ \E kwargs \in Kwargs : createuser("n1", "u1", "p1", "e1", kwargs)
    \/ \E kwargs \in Kwargs : createproject("n1", kwargs)
    \/ \E user_id \in Ids, kwargs \in Kwargs : createprojectuser(user_id, "n1", kwargs)
    \/ \E project_id \in Ids, kwargs \in TitleKwargs : createissue(project_id, "i1", kwargs)
    \/ \E project_id \in Ids, kwargs \in TitleKwargs :
          createmilestone(project_id, "i1", kwargs)

SpecCreate == Init /\ [][NextCreate]_vars

\* the edit operations
NextEdit ==
    \/ Construct
    \/ \E user_id \in Ids, kwargs \in Kwargs : edituser(user_id, kwargs)
    \/ \E project_id \in Ids, issue_id \in Ids, kwargs \in TitleKwargs :
          editissue(project_id, issue_id, kwargs)
    \/ \E project_id \in Ids, milestone_id \in Ids, kwargs \in TitleKwargs :
          editmilestone(project_id, milestone_id, kwargs)
    \/ \E project_id \in Ids, mergerequest_id \in Ids, kwargs \in TitleKwargs :
          updatemergerequest(project_id, mergerequest_id, kwargs)
    \/ \E project_id \in Ids, new_name \in {None, "l2"}, color \in {None, "#fff"} :
          editlabel(project_id, "l1", new_name, color)
    \/ \E project_id \in Ids, user_id \in Ids, access_level \in AccessNames :
          editprojectmember(project_id, user_id, access_level)
    \/ \E project_id \in Ids, hook_id \in Ids : editprojecthook(project_id, hook_id, "http://h")

SpecEdit == Init /\ [][NextEdit]_vars

\* the operations that add or edit a member with an access level
NextMembers ==
    \/ Construct
    \/ \E project_id \in Ids, user_id \in Ids, access_level \in AccessNames :
          addprojectmember(project_id, user_id, access_level)
    \/ \E project_id \in Ids, user_id \in Ids, access_level \in AccessNames :
          editprojectmember(project_id, user_id, access_level)
    \/ \E group_id \in Ids, user_id \in Ids,
          access_level \in {PyStr(n) : n \in AccessNames} \cup {PyInt(c) : c \in AccessCodes} :
          addgroupmember(group_id, user_id, access_level)

SpecMembers == Init /\ [][NextMembers]_vars

\* the named fields of a getrepositorytree call
TreeKwargs == {[k \in {} |-> ""], [path |-> "p1"], [ref_name |-> "b1"]}

\* the list operations, called with the default pagination
NextList ==
    \/ Construct
    \/ \E search \in {None, "s"} : getusers(search, 1, 20)
    \/ getsshkeys(1, 20)
    \/ getprojects(1, 20)
    \/ getprojectsall(1, 20)
    \/ getprojectsowned(1, 20)
    \/ \E project_id \in Ids : getprojectevents(project_id, 1, 20)
    \/ \E project_id \in Ids, query \in {None, "q"} :
          getprojectmembers(project_id, query, 1, 20)
    \/ \E project_id \in Ids : getprojecthooks(project_id, 1, 20)
    \/ getsystemhooks(1, 20)
    \/ \E hook_id \in Ids : testsystemhook(hook_id)
    \/ \E project_id \in Ids : getbranches(project_id, 1, 20)
    \/ getissues(1, 20)
    \/ \E project_id \in Ids : getprojectissues(project_id, 1, 20)
    \/ \E project_id \in Ids : getmilestones(project_id, 1, 20)
    \/ \E project_id \in Ids : getdeploykeys(project_id, 1, 20)
    \/ \E group_id \in Ids \cup {None} : getgroups(group_id, 1, 20)
    \/ \E project_id \in Ids, state \in {None, "merged"} :
          getmergerequests(project_id, 1, 20, state)
    \/ \E project_id \in Ids, mergerequest_id \in Ids :
          getmergerequestcomments(project_id, mergerequest_id, 1, 20)
    \/ \E project_id \in Ids : getsnippets(project_id, 1, 20)
    \/ \E project_id \in Ids : getrepositories(project_id, 1, 20)
    \/ \E project_id \in Ids : getrepositorytags(project_id, 1, 20)
    \/ \E project_id \in Ids, ref_name \in {None, "b1"} :
          getrepositorycommits(project_id, ref_name, 1, 20)
    \/ \E project_id \in Ids, kwargs \in TreeKwargs : getrepositorytree(project_id, kwargs)
    \/ \E project_id \in Ids : getcontributors(project_id, 1, 20)
    \/ searchproject("s", 1, 20)
    \/ \E group_id \in Ids : getgroupmembers(group_id, 1, 20)
    \/ \E project_id \in Ids, issue_id \in Ids : getissuewallnotes(project_id, issue_id, 1, 20)
    \/ \E project_id \in Ids, snippet_id \in Ids :
          getsnippetwallnotes(project_id, snippet_id, 1, 20)
    \/ \E project_id \in Ids, merge_request_id \in Ids :
          getmergerequestwallnotes(project_id, merge_request_id, 1, 20)
    \/ \E project_id \in Ids : getlabels(project_id, 1, 20)

SpecList == Init /\ [][NextList]_vars

\* the operations that get one resource
NextGet ==
    \/ Construct
    \/ \E user_id \in Ids : getuser(user_id)
    \/ currentuser
    \/ \E key_id \in Ids : getsshkey(key_id)
    \/ \E project_id \in Ids : getproject(project_id)
    \/ \E project_id \in Ids, hook_id \in Ids : getprojecthook(project_id, hook_id)
    \/ \E project_id \in Ids : getbranch(project_id, "b1")
    \/ \E project_id \in Ids : getrepositorybranch(project_id, "b1")
    \/ \E project_id \in Ids, issue_id \in Ids : getprojectissue(project_id, issue_id)
    \/ \E project_id \in Ids, milestone_id \in Ids : getmilestone(project_id, milestone_id)
    \/ \E project_id \in Ids, key_id \in Ids : getdeploykey(project_id, key_id)
    \/ \E project_id \in Ids, mergerequest_id \in Ids :
          getmergerequest(project_id, mergerequest_id)
    \/ \E project_id \in Ids, snippet_id \in Ids : getsnippet(project_id, snippet_id)
    \/ \E project_id \in Ids : getrepositorycommit(project_id, "c0ffee")
    \/ \E project_id \in Ids : getfile(project_id, "f1", "b1")

SpecGet == Init /\ [][NextGet]_vars

\* the operations said to raise a typed error on failure
NextArchive ==
    \/ Construct
    \/ \E email \in Emails \cup {None}, password \in Passwords, user \in Users \cup {None} :
          login(email, password, user)
    \/ creategroup("g1", "p1")
    \/ \E project_id \in Ids, filepath \in FilePaths : getfilearchive(project_id, filepath)

SpecArchive == Init /\ [][NextArchive]_vars

\* the responses the servers of the whole-client specification give
SampledStatuses == {200, 201, 404}

SampledContents == {NullContent, ObjContent([private_token |-> "t2"])}

\* the call that is made gets one of the sampled responses, or none
Sampled ==
    \/ request' = NoResponse
    \/ /\ request'.status_code \in SampledStatuses
       /\ request'.content \in SampledContents

\* every operation of the client on one host, each called with one set of
\* arguments
NextAll ==
    \/ \E token \in Tokens : __init__(<<"a">>, token, TRUE)
    \/ /\ \E email \in Emails \cup {None}, password \in Passwords,
             user \in Users \cup {None} : login(email, password, user)
       /\ Sampled
    \/ \E user \in Users \cup {None} : setsudo(user)
    \/ getusers(None, 1, 20) /\ Sampled
    \/ getuser("7") /\ Sampled
    \/ createuser("n1", "u1", "p1", "e1", EmptyDict) /\ Sampled
    \/ deleteuser("7") /\ Sampled
    \/ currentuser /\ Sampled
    \/ edituser("7", [name |-> "n2"]) /\ Sampled
    \/ getsshkeys(1, 20) /\ Sampled
    \/ getsshkey("7") /\ Sampled
    \/ addsshkey("k1", "ssh-rsa") /\ Sampled
    \/ addsshkeyuser("7", "k1", "ssh-rsa") /\ Sampled
    \/ deletesshkey("7") /\ Sampled
    \/ getprojects(1, 20) /\ Sampled
    \/ getprojectsall(1, 20) /\ Sampled
    \/ getprojectsowned(1, 20) /\ Sampled
    \/ getproject("7") /\ Sampled
    \/ getprojectevents("7", 1, 20) /\ Sampled
    \/ createproject("n1", EmptyDict) /\ Sampled
    \/ deleteproject("7") /\ Sampled
    \/ createprojectuser("7", "n1", EmptyDict) /\ Sampled
    \/ getprojectmembers("7", None, 1, 20) /\ Sampled
    \/ addprojectmember("7", "7", NameMaster) /\ Sampled
    \/ editprojectmember("7", "7", NameMaster) /\ Sampled
    \/ deleteprojectmember("7", "7") /\ Sampled
    \/ getprojecthooks("7", 1, 20) /\ Sampled
    \/ getprojecthook("7", "7") /\ Sampled
    \/ addprojecthook("7", "http://h") /\ Sampled
    \/ editprojecthook("7", "7", "http://h") /\ Sampled
    \/ deleteprojecthook("7", "7") /\ Sampled
    \/ getsystemhooks(1, 20) /\ Sampled
    \/ addsystemhook("http://h") /\ Sampled
    \/ testsystemhook("7") /\ Sampled
    \/ deletesystemhook("7") /\ Sampled
    \/ getbranches("7", 1, 20) /\ Sampled
    \/ getbranch("7", "b1") /\ Sampled
    \/ createbranch("7", "b1", "c0ffee") /\ Sampled
    \/ deletebranch("7", "b1") /\ Sampled
    \/ protectbranch("7", "b1") /\ Sampled
    \/ unprotectbranch("7", "b1") /\ Sampled
    \/ createforkrelation("7", "7") /\ Sampled
    \/ removeforkrelation("7") /\ Sampled
    \/ createfork("7") /\ Sampled
    \/ getissues(1, 20) /\ Sampled
    \/ getprojectissues("7", 1, 20) /\ Sampled
    \/ getprojectissue("7", "7") /\ Sampled
    \/ createissue("7", "i1", EmptyDict) /\ Sampled
    \/ editissue("7", "7", [title |-> "i2"]) /\ Sampled
    \/ getmilestones("7", 1, 20) /\ Sampled
    \/ getmilestone("7", "7") /\ Sampled
    \/ createmilestone("7", "i1", EmptyDict) /\ Sampled
    \/ editmilestone("7", "7", [title |-> "i2"]) /\ Sampled
    \/ getdeploykeys("7", 1, 20) /\ Sampled
    \/ getdeploykey("7", "7") /\ Sampled
    \/ adddeploykey("7", "k1", "ssh-rsa") /\ Sampled
    \/ deletedeploykey("7", "7") /\ Sampled
    \/ creategroup("g1", "p1") /\ Sampled
    \/ getgroups(None, 1, 20) /\ Sampled
    \/ moveproject("7", "7") /\ Sampled
    \/ getmergerequests("7", 1, 20, None) /\ Sampled
    \/ getmergerequest("7", "7") /\ Sampled
    \/ getmergerequestcomments("7", "7", 1, 20) /\ Sampled
    \/ createmergerequest("7", "b1", "b2", "i1", None, None) /\ Sampled
    \/ updatemergerequest("7", "7", [title |-> "i2"]) /\ Sampled
    \/ acceptmergerequest("7", "7", None) /\ Sampled
    \/ addcommenttomergerequest("7", "7", "m1") /\ Sampled
    \/ getsnippets("7", 1, 20) /\ Sampled
    \/ getsnippet("7", "7") /\ Sampled
    \/ /\ \E lifetime \in {"", "l1"} :
             createsnippet("7", "i1", "f1", "x = 1", lifetime)
       /\ Sampled
    \/ getsnippetcontent("7", "7") /\ Sampled
    \/ deletesnippet("7", "7") /\ Sampled
    \/ getrepositories("7", 1, 20) /\ Sampled
    \/ getrepositorybranch("7", "b1") /\ Sampled
    \/ protectrepositorybranch("7", "b1") /\ Sampled
    \/ unprotectrepositorybranch("7", "b1") /\ Sampled
    \/ getrepositorytags("7", 1, 20) /\ Sampled
    \/ createrepositorytag("7", "v1", "c0ffee", None) /\ Sampled
    \/ getrepositorycommits("7", None, 1, 20) /\ Sampled
    \/ getrepositorycommit("7", "c0ffee") /\ Sampled
    \/ getrepositorycommitdiff("7", "c0ffee") /\ Sampled
    \/ getrepositorytree("7", EmptyDict) /\ Sampled
    \/ getrawfile("7", "c0ffee", "f1") /\ Sampled
    \/ getrawblob("7", "c0ffee") /\ Sampled
    \/ getcontributors("7", 1, 20) /\ Sampled
    \/ compare_branches_tags_commits("7", "b1", "b2") /\ Sampled
    \/ searchproject("s", 1, 20) /\ Sampled
    \/ getfilearchive("7", << >>) /\ Sampled
    \/ deletegroup("7") /\ Sampled
    \/ getgroupmembers("7", 1, 20) /\ Sampled
    \/ /\ \E access_level \in {PyStr(NameMaster), PyStr(<<"x">>), PyInt(40)} :
             addgroupmember("7", "7", access_level)
       /\ Sampled
    \/ deletegroupmember("7", "7") /\ Sampled
    \/ getissuewallnotes("7", "7", 1, 20) /\ Sampled
    \/ getissuewallnote("7", "7", "7") /\ Sampled
    \/ createissuewallnote("7", "7", "m1") /\ Sampled
    \/ getsnippetwallnotes("7", "7", 1, 20) /\ Sampled
    \/ getsnippetwallnote("7", "7", "7") /\ Sampled
    \/ createsnippetewallnote("7", "7", "m1") /\ Sampled
    \/ getmergerequestwallnotes("7", "7", 1, 20) /\ Sampled
    \/ getmergerequestwallnote("7", "7", "7") /\ Sampled
    \/ createmergerequestewallnote("7", "7", "m1") /\ Sampled
    \/ createfile("7", "f1", "b1", "x = 1", "m1") /\ Sampled
    \/ updatefile("7", "f1", "b1", "x = 1", "m1") /\ Sampled
    \/ getfile("7", "f1", "b1") /\ Sampled
    \/ deletefile("7", "f1", "b1", "m1") /\ Sampled
    \/ setgitlabciservice("7", "c1", "http://ci") /\ Sampled
    \/ deletegitlabciservice("7", "c1", "http://ci") /\ Sampled
    \/ getlabels("7", 1, 20) /\ Sampled
    \/ createlabel("7", "l1", "#fff") /\ Sampled
    \/ deletelabel("7", "l1") /\ Sampled
    \/ editlabel("7", "l1", "l2", "#fff") /\ Sampled

SpecAll == Init /\ [][NextAll]_vars

\* the responses of the specification that remembers a call
Lean ==
    \/ request' = NoResponse
    \/ /\ request'.status_code \in SampledStatuses
       /\ request'.content = NullContent

\* the operations whose calls are remembered
ProbeOps == {"getusers", "createproject"}

\* a history step: the call that just ended is kept, with the client it ran on
\* (these operations leave the client as it was), its response and its result
Remember ==
    /\ remembered = << >>
    /\ call.op \in ProbeOps
    /\ remembered' = <<[call |-> call, self |-> self, request |-> request,
                        outcome |-> outcome, sent |-> sent]>>
    /\ UNCHANGED <<phase, self, call, outcome, sent, request, written, logged,
                   sudoed, threads>>

\* every operation on one client that holds a token; at any time one call is
\* remembered and met again after any number of other calls
NextIndependent ==
    \/ __init__(<<"a">>, "t1", TRUE)
    \/ login("e1", "p1", None) /\ Lean
    \/ \E user \in {"u1", None} : setsudo(user)
    \/ getusers(None, 1, 20) /\ Lean
    \/ getuser("7") /\ Lean
    \/ createuser("n1", "u1", "p1", "e1", EmptyDict) /\ Lean
    \/ deleteuser("7") /\ Lean
    \/ currentuser /\ Lean
    \/ edituser("7", [name |-> "n2"]) /\ Lean
    \/ getsshkeys(1, 20) /\ Lean
    \/ getsshkey("7") /\ Lean
    \/ addsshkey("k1", "ssh-rsa") /\ Lean
    \/ addsshkeyuser("7", "k1", "ssh-rsa") /\ Lean
    \/ deletesshkey("7") /\ Lean
    \/ getprojects(1, 20) /\ Lean
    \/ getprojectsall(1, 20) /\ Lean
    \/ getprojectsowned(1, 20) /\ Lean
    \/ getproject("7") /\ Lean
    \/ getprojectevents("7", 1, 20) /\ Lean
    \/ createproject("n1", EmptyDict) /\ Lean
    \/ deleteproject("7") /\ Lean
    \/ createprojectuser("7", "n1", EmptyDict) /\ Lean
    \/ getprojectmembers("7", None, 1, 20) /\ Lean
    \/ addprojectmember("7", "7", NameMaster) /\ Lean
    \/ editprojectmember("7", "7", NameMaster) /\ Lean
    \/ deleteprojectmember("7", "7") /\ Lean
    \/ getprojecthooks("7", 1, 20) /\ Lean
    \/ getprojecthook("7", "7") /\ Lean
    \/ addprojecthook("7", "http://h") /\ Lean
    \/ editprojecthook("7", "7", "http://h") /\ Lean
    \/ deleteprojecthook("7", "7") /\ Lean
    \/ getsystemhooks(1, 20) /\ Lean
    \/ addsystemhook("http://h") /\ Lean
    \/ testsystemhook("7") /\ Lean
    \/ deletesystemhook("7") /\ Lean
    \/ getbranches("7", 1, 20) /\ Lean
    \/ getbranch("7", "b1") /\ Lean
    \/ createbranch("7", "b1", "c0ffee") /\ Lean
    \/ deletebranch("7", "b1") /\ Lean
    \/ protectbranch("7", "b1") /\ Lean
    \/ unprotectbranch("7", "b1") /\ Lean
    \/ createforkrelation("7", "7") /\ Lean
    \/ removeforkrelation("7") /\ Lean
    \/ createfork("7") /\ Lean
    \/ getissues(1, 20) /\ Lean
    \/ getprojectissues("7", 1, 20) /\ Lean
    \/ getprojectissue("7", "7") /\ Lean
    \/ createissue("7", "i1", EmptyDict) /\ Lean
    \/ editissue("7", "7", [title |-> "i2"]) /\ Lean
    \/ getmilestones("7", 1, 20) /\ Lean
    \/ getmilestone("7", "7") /\ Lean
    \/ createmilestone("7", "i1", EmptyDict) /\ Lean
    \/ editmilestone("7", "7", [title |-> "i2"]) /\ Lean
    \/ getdeploykeys("7", 1, 20) /\ Lean
    \/ getdeploykey("7", "7") /\ Lean
    \/ adddeploykey("7", "k1", "ssh-rsa") /\ Lean
    \/ deletedeploykey("7", "7") /\ Lean
    \/ creategroup("g1", "p1") /\ Lean
    \/ getgroups(None, 1, 20) /\ Lean
    \/ moveproject("7", "7") /\ Lean
    \/ getmergerequests("7", 1, 20, None) /\ Lean
    \/ getmergerequest("7", "7") /\ Lean
    \/ getmergerequestcomments("7", "7", 1, 20) /\ Lean
    \/ createmergerequest("7", "b1", "b2", "i1", None, None) /\ Lean
    \/ updatemergerequest("7", "7", [title |-> "i2"]) /\ Lean
    \/ acceptmergerequest("7", "7", None) /\ Lean
    \/ addcommenttomergerequest("7", "7", "m1") /\ Lean
    \/ getsnippets("7", 1, 20) /\ Lean
    \/ getsnippet("7", "7") /\ Lean
    \/ /\ \E lifetime \in {"", "l1"} :
             createsnippet("7", "i1", "f1", "x = 1", lifetime)
       /\ Lean
    \/ getsnippetcontent("7", "7") /\ Lean
    \/ deletesnippet("7", "7") /\ Lean
    \/ getrepositories("7", 1, 20) /\ Lean
    \/ getrepositorybranch("7", "b1") /\ Lean
    \/ protectrepositorybranch("7", "b1") /\ Lean
    \/ unprotectrepositorybranch("7", "b1") /\ Lean
    \/ getrepositorytags("7", 1, 20) /\ Lean
    \/ createrepositorytag("7", "v1", "c0ffee", None) /\ Lean
    \/ getrepositorycommits("7", None, 1, 20) /\ Lean
    \/ getrepositorycommit("7", "c0ffee") /\ Lean
    \/ getrepositorycommitdiff("7", "c0ffee") /\ Lean
    \/ getrepositorytree("7", EmptyDict) /\ Lean
    \/ getrawfile("7", "c0ffee", "f1") /\ Lean
    \/ getrawblob("7", "c0ffee") /\ Lean
    \/ getcontributors("7", 1, 20) /\ Lean
    \/ compare_branches_tags_commits("7", "b1", "b2") /\ Lean
    \/ searchproject("s", 1, 20) /\ Lean
    \/ getfilearchive("7", << >>) /\ Lean
    \/ deletegroup("7") /\ Lean
    \/ getgroupmembers("7", 1, 20) /\ Lean
    \/ /\ \E access_level \in {PyStr(NameMaster), PyStr(<<"x">>), PyInt(40)} :
             addgroupmember("7", "7", access_level)
       /\ Lean
    \/ deletegroupmember("7", "7") /\ Lean
    \/ getissuewallnotes("7", "7", 1, 20) /\ Lean
    \/ getissuewallnote("7", "7", "7") /\ Lean
    \/ createissuewallnote("7", "7", "m1") /\ Lean
    \/ getsnippetwallnotes("7", "7", 1, 20) /\ Lean
    \/ getsnippetwallnote("7", "7", "7") /\ Lean
    \/ createsnippetewallnote("7", "7", "m1") /\ Lean
    \/ getmergerequestwallnotes("7", "7", 1, 20) /\ Lean
    \/ getmergerequestwallnote("7", "7", "7") /\ Lean
    \/ createmergerequestewallnote("7", "7", "m1") /\ Lean
    \/ createfile("7", "f1", "b1", "x = 1", "m1") /\ Lean
    \/ updatefile("7", "f1", "b1", "x = 1", "m1") /\ Lean
    \/ getfile("7", "f1", "b1") /\ Lean
    \/ deletefile("7", "f1", "b1", "m1") /\ Lean
    \/ setgitlabciservice("7", "c1", "http://ci") /\ Lean
    \/ deletegitlabciservice("7", "c1", "http://ci") /\ Lean
    \/ getlabels("7", 1, 20) /\ Lean
    \/ createlabel("7", "l1", "#fff") /\ Lean
    \/ deletelabel("7", "l1") /\ Lean
    \/ editlabel("7", "l1", "l2", "#fff") /\ Lean
    \/ Remember

SpecIndependent == Init /\ [][NextIndependent]_vars

\* two threads calling getusers and setsudo on one client that holds a token
NextThreads ==
    \/ __init__(<<"a">>, "t1", TRUE)
    \/ \E t \in Threads : getusers_enter(t)
    \/ \E t \in Threads : getusers_send(t)
    \/ \E t \in Threads : getusers_return(t)
    \/ \E t \in Threads, user \in Users \cup {None} : setsudo_enter(t, user)
    \/ \E t \in Threads : setsudo_store(t)

SpecThreads == Init /\ [][NextThreads]_vars

-----------------------------------------------------------------------------
(* Vocabulary of the properties *)

\* the last call issued one request and got its response
Answered == Len(sent) = 1

\* a request carries the header PRIVATE-TOKEN with this value
CarriesToken(req, token) ==
    "PRIVATE-TOKEN" \in DOMAIN req.headers /\ req.headers["PRIVATE-TOKEN"] = token

\* a request carries the header SUDO with this value
CarriesSudo(req, user) ==
    "SUDO" \in DOMAIN req.headers /\ req.headers["SUDO"] = user

\* the body of the response is an object with this field
HasField(r, key) == r.content.raw = "object" /\ key \in DOMAIN r.content.obj

\* the last call was a delete: it issued a DELETE request
IsDelete == Answered /\ sent[1].method = "DELETE"

\* the host given to the constructor, and the same less one trailing slash
GivenHost == call.args[1]
CutHost ==
    IF GivenHost # << >> /\ GivenHost[Len(GivenHost)] = "/"
    THEN SubSeq(GivenHost, 1, Len(GivenHost) - 1)
    ELSE GivenHost

HasScheme(h) == Slice(h, 7) = HTTP \/ Slice(h, 8) = HTTPS
EndsWithSlash(h) == h # << >> /\ h[Len(h)] = "/"

\* every base URL is the stored host, /api/v3 and the fixed suffix of the resource
BaseUrlsFollowHost ==
    /\ self.api_url = self.host \o <<"/api/v3">>
    /\ self.projects_url = self.host \o <<"/api/v3", "/projects">>
    /\ self.users_url = self.host \o <<"/api/v3", "/users">>
    /\ self.keys_url = self.host \o <<"/api/v3", "/user/keys">>
    /\ self.groups_url = self.host \o <<"/api/v3", "/groups">>
    /\ self.search_url = self.host \o <<"/api/v3", "/projects/search">>
    /\ self.hook_url = self.host \o <<"/api/v3", "/hooks">>

-----------------------------------------------------------------------------
(* Properties *)

\* C1: once the client holds a token, every request issued by an operation
\* carries the header PRIVATE-TOKEN equal to the client's token (the request
\* of login itself, which is what changes the token, is left aside).
C1_TokenOnEveryRequest ==
    (phase = "ready" /\ "token" \in DOMAIN self /\ call.op # "login")
        => \A i \in DOMAIN sent : CarriesToken(sent[i], self.token)

\* C2: login returns True exactly when it is answered 201 with a body that
\* holds private_token, it then stores that token as the client's token and
\* PRIVATE-TOKEN header, and from then on the client's token is the one of
\* the last such login and every request of a later operation carries it.
C2_LoginStoresToken ==
    /\ (call.op = "login" /\ Answered)
          => /\ outcome = Return(PyTrue)
                    <=> (request.status_code = 201 /\ HasField(request, "private_token"))
             /\ outcome = Return(PyTrue)
                    => /\ self.token = request.content.obj["private_token"]
                       /\ self.headers["PRIVATE-TOKEN"] = self.token
    /\ logged # None
          => /\ self.token = logged
             /\ call.op # "login" => \A i \in DOMAIN sent : CarriesToken(sent[i], logged)

\* C3 as claimed: a login answered with a status other than 201 ends by
\* raising HttpError carrying the message field of the body.
C3_LoginFailureRaisesHttpError ==
    (call.op = "login" /\ Answered /\ request.status_code # 201)
        => /\ outcome.kind = "raise"
           /\ outcome.value.t = "HttpError"
           /\ HasField(request, "message")
           /\ outcome.value.v = request.content.obj["message"]

\* C3 as amended: a login answered with a status other than 201 never
\* returns; it raises HttpError carrying the message field when the body is
\* an object that has one, KeyError when the body is an object without it
\* and TypeError when the body is null.
C3_LoginFailureRaises ==
    (call.op = "login" /\ Answered /\ request.status_code # 201)
        => /\ outcome.kind = "raise"
           /\ HasField(request, "message")
                 => outcome.value = PyException("HttpError", request.content.obj["message"])
           /\ (request.content.raw = "object" /\ ~HasField(request, "message"))
                 => outcome.value.t = "KeyError"
           /\ request.content.raw = "null" => outcome.value.t = "TypeError"

C3_Witness ==
    /\ call.op = "login" /\ Answered /\ request.status_code = 403
    /\ outcome = Raise("HttpError", LimitText)

\* C4: after setsudo(u), u not None, the client keeps the header SUDO = u
\* and every request of a later operation carries it, until setsudo is
\* called again; no other operation (a successful login included) removes
\* or changes it (the session request of login itself is left aside).
C4_SudoOnEveryRequest ==
    (phase = "ready" /\ sudoed # None)
        => /\ "headers" \in DOMAIN self
           /\ "SUDO" \in DOMAIN self.headers
           /\ self.headers["SUDO"] = sudoed
           /\ call.op # "login" => \A i \in DOMAIN sent : CarriesSudo(sent[i], sudoed)

\* C5: setsudo(None) never raises and leaves the client without a SUDO
\* header, whatever the state of the client; a second setsudo(None) would
\* leave the headers as the first one left them.
C5_ClearSudoNeverRaises ==
    (call.op = "setsudo" /\ call.args[1] = None)
        => /\ outcome.kind = "return"
           /\ "headers" \in DOMAIN self
                 => /\ "SUDO" \notin DOMAIN self.headers
                    /\ setsudo_headers(self.headers, None) = self.headers

\* C6: constructing a client with an empty host raises ValueError whatever
\* the token is, and no client results: no operation can be called.
C6_EmptyHostFails ==
    (call.op = "__init__" /\ GivenHost = << >>)
        => /\ outcome.kind = "raise"
           /\ outcome.value.t = "ValueError"
           /\ phase = "failed"
           /\ ~ENABLED Next

C6_Witness ==
    /\ call.op = "__init__" /\ GivenHost = << >> /\ call.args[2] = "t1"
    /\ phase = "failed"

\* C7 as claimed: for every non-empty host the stored host has no trailing
\* slash and starts with http:// or https://, https:// being prepended
\* exactly when the given host has neither scheme, and every base URL is the
\* stored host, /api/v3 and a fixed suffix.
C7_HostNormalised ==
    phase = "ready"
        => /\ ~EndsWithSlash(self.host)
           /\ HasScheme(self.host)
           /\ (self.host = HTTPS \o CutHost) <=> ~HasScheme(GivenHost)
           /\ BaseUrlsFollowHost

\* C7 as amended: for every non-empty host the stored host is the given host
\* less ONE trailing slash, with https:// prepended exactly when that has
\* neither scheme; so it starts with http:// or https://, and it has no
\* trailing slash unless the given host is "/" or ends with two slashes;
\* every base URL is the stored host, /api/v3 and a fixed suffix.
C7_HostNormalisedOnce ==
    phase = "ready"
        => /\ self.host \in {CutHost, HTTPS \o CutHost}
           /\ HasScheme(self.host)
           /\ (self.host = HTTPS \o CutHost) <=> ~HasScheme(CutHost)
           /\ EndsWithSlash(self.host) <=> (CutHost = << >> \/ EndsWithSlash(CutHost))
           /\ BaseUrlsFollowHost

C7_Witness ==
    /\ phase = "ready"
    /\ GivenHost = <<"a", "/">>
    /\ self.host = HTTPS \o <<"a">>
    /\ self.users_url = HTTPS \o <<"a", "/api/v3", "/users">>

\* C8: a delete operation returns True if and only if the status of the
\* response is 200, whatever its body.
C8_DeleteTrueIffOk ==
    IsDelete => (outcome = Return(PyTrue) <=> request.status_code = 200)

\* C9: a delete operation returns the boolean False for every status other
\* than 200, never None.
C9_DeleteFalseOtherwise ==
    (IsDelete /\ request.status_code # 200) => outcome = Return(PyFalse)

\* C10: createproject and createuser return the decoded body on status 201
\* and False on every other status.
C10_CreateResult ==
    (call.op \in {"createproject", "createuser"} /\ Answered)
        => outcome = IF request.status_code = 201
                     THEN Return(json_loads(request.content))
                     ELSE Return(PyFalse)

\* the extra named fields of the last call: its last argument
ExtraFields == call.args[Len(call.args)]

\* the body fields the documentation of a create operation ties to its
\* required arguments
RequiredFields ==
    IF call.op = "createuser"
    THEN [name |-> call.args[1], username |-> call.args[2],
          password |-> call.args[3], email |-> call.args[4]]
    ELSE IF call.op = "createproject" THEN [name |-> call.args[1]]
    ELSE IF call.op = "createprojectuser" THEN [name |-> call.args[2]]
    ELSE [id |-> call.args[1], title |-> call.args[2]]

IsCreateWithExtras ==
    /\ Answered
    /\ call.op \in {"createuser", "createproject", "createprojectuser",
                    "createissue", "createmilestone"}

IsBareEdit ==
    /\ Answered
    /\ call.op \in {"edituser", "editissue", "editmilestone", "updatemergerequest"}
    /\ ExtraFields = EmptyDict

\* C12 as stated: an edit operation that takes an open bag of fields, called
\* with no optional fields, sends a request with an empty body.
C12_BareEditSendsEmptyBody ==
    IsBareEdit => sent[1].data = EmptyDict

\* C12: an edit operation that takes an open bag of fields, called with no
\* optional fields, sends a body that holds nothing but the identifiers the
\* operation sets itself: none for edituser and updatemergerequest, id and
\* issue_id for editissue, id and milestone_id for editmilestone.
C12_BareEditSendsIdentifiersOnly ==
    IsBareEdit =>
        sent[1].data =
            IF call.op = "editissue"
            THEN [id |-> call.args[1], issue_id |-> call.args[2]]
            ELSE IF call.op = "editmilestone"
            THEN [id |-> call.args[1], milestone_id |-> call.args[2]]
            ELSE EmptyDict

C12_Witness ==
    /\ IsBareEdit
    /\ call.op = "editissue"
    /\ DOMAIN sent[1].data = {"id", "issue_id"}

\* two names are the same up to the case of their letters
SameLetters(a, b) ==
    /\ Len(a) = Len(b)
    /\ \A i \in DOMAIN a :
          \/ a[i] = b[i]
          \/ \E j \in DOMAIN UpperCase : {a[i], b[i]} = {UpperCase[j], LowerCase[j]}

IsProjectMemberCall ==
    Answered /\ call.op \in {"addprojectmember", "editprojectmember"}

\* C13: addprojectmember and editprojectmember send, for an access-level name
\* taken without regard to case, the code 40 for master, 30 for developer, 20
\* for reporter and 10 for every other name (guest and owner included); the
\* code depends on the name alone, so both operations send the same one.
C13_ProjectMemberLevel ==
    IsProjectMemberCall =>
        sent[1].data.access_level =
            IF SameLetters(call.args[3], NameMaster) THEN 40
            ELSE IF SameLetters(call.args[3], NameDeveloper) THEN 30
            ELSE IF SameLetters(call.args[3], NameReporter) THEN 20
            ELSE 10

C13_Witness ==
    /\ IsProjectMemberCall
    /\ call.op = "editprojectmember"
    /\ call.args[3] = <<"M", "A", "S", "T", "E", "R">>
    /\ sent[1].data.access_level = 40

\* C14: addgroupmember sends, for an access-level name taken without regard
\* to case, the code 50 for owner, 40 for master, 30 for developer, 20 for
\* reporter and 10 for guest; for any other name it returns False and issues
\* no request; an integer access level is sent as it was given.
C14_GroupMemberLevel ==
    call.op = "addgroupmember" =>
        LET access_level == call.args[3]
            Named(n) == SameLetters(access_level.v, n)
        IN  IF access_level.t = "int"
            THEN Answered => sent[1].data.access_level = access_level.v
            ELSE IF Named(NameOwner) \/ Named(NameMaster) \/ Named(NameDeveloper)
                    \/ Named(NameReporter) \/ Named(NameGuest)
            THEN Answered =>
                    sent[1].data.access_level =
                        IF Named(NameOwner) THEN 50
                        ELSE IF Named(NameMaster) THEN 40
                        ELSE IF Named(NameDeveloper) THEN 30
                        ELSE IF Named(NameReporter) THEN 20
                        ELSE 10
            ELSE outcome = Return(PyFalse) /\ sent = << >>

C14_Witness ==
    /\ call.op = "addgroupmember"
    /\ call.args[3] = PyStr(<<"a", "d", "m", "i", "n">>)
    /\ "headers" \in DOMAIN self
    /\ outcome = Return(PyFalse)
    /\ sent = << >>

\* the operations that list a collection page by page
ListOps ==
    {"getusers", "getsshkeys", "getprojects", "getprojectsall", "getprojectsowned",
     "getprojectevents", "getprojectmembers", "getprojecthooks", "getsystemhooks",
     "getbranches", "getissues", "getprojectissues", "getmilestones", "getdeploykeys",
     "getgroups", "getmergerequests", "getmergerequestcomments", "getsnippets",
     "getrepositories", "getrepositorytags", "getrepositorycommits",
     "getrepositorytree", "getcontributors", "searchproject", "getgroupmembers",
     "getissuewallnotes", "getsnippetwallnotes", "getmergerequestwallnotes",
     "getlabels"}

\* the keys of the filters a list operation takes
FilterKeys == {"search", "query", "ref_name", "state"}

\* the filter the caller gave to the last call, as a query parameter
SuppliedFilter ==
    IF call.op = "getusers" /\ call.args[1] # None
    THEN [search |-> call.args[1]]
    ELSE IF call.op = "getprojectmembers" /\ call.args[2] # None
    THEN [query |-> call.args[2]]
    ELSE IF call.op = "getrepositorycommits" /\ call.args[2] # None
    THEN [ref_name |-> call.args[2]]
    ELSE IF call.op = "getmergerequests" /\ call.args[4] # None
    THEN [state |-> call.args[4]]
    ELSE IF call.op = "getrepositorytree" /\ "ref_name" \in DOMAIN call.args[2]
    THEN [ref_name |-> call.args[2].ref_name]
    ELSE EmptyDict

\* the query string of a request: the requests library leaves out a parameter
\* whose value is None
QueryString(params) ==
    [k \in {j \in DOMAIN params : j \notin FilterKeys \/ params[j] # None} |->
        params[k]]

\* C15: a list operation called with the default pagination sends exactly
\* page=1 and per_page=20, plus the filter parameter when the caller supplied
\* one; no list operation omits the pagination parameters.
C15_ListQuery ==
    (Answered /\ call.op \in ListOps) =>
        LET query == QueryString(sent[1].params)
        IN  /\ DOMAIN query = {"page", "per_page"} \cup DOMAIN SuppliedFilter
            /\ query.page = 1
            /\ query.per_page = 20
            /\ \A k \in DOMAIN SuppliedFilter : query[k] = SuppliedFilter[k]

\* C16: every list operation (testsystemhook with them) returns the decoded
\* body of the response when the status is 200 and False for every other
\* status.
C16_ListResult ==
    (Answered /\ call.op \in ListOps \cup {"testsystemhook"}) =>
        outcome = IF request.status_code = 200
                  THEN Return(json_loads(request.content))
                  ELSE Return(PyFalse)

C16_Witness ==
    /\ Answered
    /\ call.op = "getgroups"
    /\ request.status_code = 404
    /\ outcome = Return(PyFalse)

\* the operations that get one resource by its id
GetOneOps ==
    {"getuser", "currentuser", "getsshkey", "getproject", "getprojecthook",
     "getbranch", "getrepositorybranch", "getprojectissue", "getmilestone",
     "getdeploykey", "getmergerequest", "getsnippet", "getrepositorycommit",
     "getfile"}

\* C17: every get-one operation returns the decoded object when the status is
\* 200 and False for every other status; it never raises on a response.
C17_GetOneResult ==
    (Answered /\ call.op \in GetOneOps) =>
        outcome = IF request.status_code = 200
                  THEN Return(json_loads(request.content))
                  ELSE Return(PyFalse)

\* the edit operations
EditOps ==
    {"edituser", "editissue", "editmilestone", "editlabel", "editprojectmember",
     "editprojecthook", "updatemergerequest"}

\* the edit operations that answer success with the boolean True
EditOpsAnsweringTrue == {"editprojectmember", "editprojecthook", "updatemergerequest"}

C19_CreateGroupFailureRaises ==
    (call.op = "creategroup" /\ Answered /\ request.status_code # 201)
        => /\ outcome.kind = "raise"
           /\ HasField(request, "message")
                 => outcome.value = PyException("HttpError", request.content.obj["message"])

\* the last call is an answered getfilearchive
IsArchive == call.op = "getfilearchive" /\ Answered

\* the header of the response is attachment; filename=NAME, NAME quoted or not
NamedBy(name) ==
    /\ "content-disposition" \in DOMAIN request.headers
    /\ \E quoted \in BOOLEAN :
          request.headers["content-disposition"] = Disposition(name, quoted)

\* the path the archive belongs at: the one the caller gave or, by default,
\* the file name of the header
ArchivePath ==
    IF call.args[2] # << >> THEN call.args[2]
    ELSE CHOOSE name \in ArchiveNames : NamedBy(name)

HasArchivePath == call.args[2] # << >> \/ \E name \in ArchiveNames : NamedBy(name)

\* C20 as stated: getfilearchive writes a file only on status 200, where it
\* writes exactly the bytes of the response to the given path or, by
\* default, to the file name of the content-disposition header, and returns
\* True; on any other status it writes no file and raises HttpError with the
\* message of the response.
C20_ArchiveWrittenOrHttpError ==
    IsArchive =>
        IF request.status_code = 200
        THEN HasArchivePath =>
                /\ written = <<[path |-> ArchivePath, content |-> request.content]>>
                /\ outcome = Return(PyTrue)
        ELSE /\ written = << >>
             /\ outcome.kind = "raise"
             /\ outcome.value.t = "HttpError"
             /\ HasField(request, "message")
             /\ outcome.value.v = request.content.obj["message"]

\* the name has no fragment that the parsing of the header splits at
IsPlain(name) == \A i \in DOMAIN name : name[i] \notin {";", "="}

\* C20: getfilearchive writes a file only on status 200.  There, given a path
\* or else a header attachment; filename=NAME whose NAME holds no ; and no =,
\* it writes exactly the bytes of the response to the path or to NAME without
\* its quotes, and returns True.  On any other status it writes no file and
\* raises: HttpError with the message when the body is an object that has
\* one, KeyError when the body is an object without it, TypeError when the
\* body is null.
C20_ArchiveResult ==
    IsArchive =>
        IF request.status_code = 200
        THEN (HasArchivePath /\ IsPlain(ArchivePath)) =>
                /\ written = <<[path |-> ArchivePath, content |-> request.content]>>
                /\ outcome = Return(PyTrue)
        ELSE /\ written = << >>
             /\ outcome.kind = "raise"
             /\ HasField(request, "message")
                   => outcome.value
                        = PyException("HttpError", request.content.obj["message"])
             /\ (request.content.raw = "object" /\ ~HasField(request, "message"))
                   => outcome.value.t = "KeyError"
             /\ request.content.raw = "null" => outcome.value.t = "TypeError"

C20_Witness ==
    /\ IsArchive
    /\ request.status_code = 200
    /\ call.args[2] = << >>
    /\ NamedBy(<<"f.tar.gz">>)
    /\ request.headers["content-disposition"] = Disposition(<<"f.tar.gz">>, TRUE)
    /\ written = <<[path |-> <<"f.tar.gz">>, content |-> request.content]>>
    /\ outcome = Return(PyTrue)

\* what getrepositorybranch returns for a status that is neither 200 nor 404
BranchFailureValue ==
    getrepositorybranch_result([status_code |-> 403, content |-> NullContent])

\* C23: getrepositorybranch returns for a 404 response the same failure value
\* whether its message is the branch-missing one or any other, and that value
\* is the one it returns for every other status that is not 200.
C23_BranchNotFoundUniform ==
    (/\ call.op = "getrepositorybranch"
     /\ Answered
     /\ request.status_code # 200
     /\ (request.status_code = 404 => HasField(request, "message")))
        => outcome = BranchFailureValue

\* C24: the body createissue sends carries the caller's values in its required
\* fields: id is the project_id of the call and title is its title.
C24_IssueRequiredFields ==
    (call.op = "createissue" /\ Answered)
        => /\ sent[1].data.id = call.args[1]
           /\ sent[1].data.title = call.args[2]

\* C26: a login answered with a status other than 201 leaves every attribute
\* of the client, its token and its headers with any SUDO entry among them,
\* as it was before the call.
C26_FailedLoginKeepsSession ==
    [][(call'.op = "login" /\ Len(sent') = 1 /\ request'.status_code # 201)
          => self' = self]_vars

C26_Witness ==
    /\ call.op = "login"
    /\ Answered
    /\ request.status_code # 201
    /\ outcome.kind = "raise"
    /\ "headers" \in DOMAIN self
    /\ self.token = "t1"
    /\ self.headers = ("PRIVATE-TOKEN" :> "t1") @@ ("SUDO" :> "u1")

\* C28: whenever the client has a headers mapping, the mapping holds
\* PRIVATE-TOKEN and its value is the token attribute of the client.
C28_HeadersCarryToken ==
    "headers" \in DOMAIN self
        => /\ "token" \in DOMAIN self
           /\ "PRIVATE-TOKEN" \in DOMAIN self.headers
           /\ self.headers["PRIVATE-TOKEN"] = self.token

C28_Witness ==
    /\ "headers" \in DOMAIN self
    /\ logged # None
    /\ self.token = logged
    /\ "SUDO" \in DOMAIN self.headers
    /\ self.headers["PRIVATE-TOKEN"] = logged

\* C29: every request is sent with the TLS-verification setting the client
\* was constructed with.
C29_VerifyOnEveryRequest ==
    Answered => sent[1].verify = self.verify_ssl

\* the last call is a login given neither a user nor an email
IsAnonymousLogin(c) == c.op = "login" /\ c.args[1] = None /\ c.args[3] = None

\* C30: login called with neither a user nor an email raises ValueError, issues
\* no request and leaves every attribute of the client as it was.
C30_AnonymousLoginRaises ==
    [][IsAnonymousLogin(call')
          => /\ self' = self
             /\ sent' = << >>
             /\ outcome'.kind = "raise"
             /\ outcome'.value.t = "ValueError"]_vars

C30_Witness ==
    /\ IsAnonymousLogin(call)
    /\ outcome.kind = "raise"
    /\ outcome.value.t = "ValueError"
    /\ sent = << >>
    /\ "token" \in DOMAIN self

-----------------------------------------------------------------------------
(* C21: one request per call *)

\* the last call ended: it returned a value or raised
Ended == outcome.kind \in {"return", "raise"}

\* C21: a call of an operation issues at most one HTTP request and never
\* sends it again: when the call has ended, whatever the status of the
\* response, the requests it sent are none (and then there is no response) or
\* exactly one (and then the response is the one to that request); a further
\* request needs a further call.
C21_OneRequestPerCall ==
    call.op # ""
        => /\ Ended
           /\ Len(sent) <= 1
           /\ (sent = << >>) <=> (request = NoResponse)

\* createproject answered 404: it returned False having sent one request
C21_Witness ==
    /\ call.op = "createproject"
    /\ Len(sent) = 1
    /\ request.status_code = 404
    /\ outcome = Return(PyFalse)

-----------------------------------------------------------------------------
(* C27: the client without a token *)

\* the client was constructed and holds no headers: it was given the empty
\* token and no login has succeeded on it
Tokenless == phase = "ready" /\ "headers" \notin DOMAIN self

\* the call c reads self.headers: every call does but a login (it sends a
\* header of its own), createfork (it sends no header) and an addgroupmember
\* that returns at line 1561, before the request is built
AttachesHeaders(c) ==
    /\ c.op \notin {"login", "createfork"}
    /\ c.op = "addgroupmember" => addgroupmember_level(c.args[3]).known

\* C27: on a client constructed with the empty token on which no login has
\* succeeded, every call that attaches the session headers raises
\* (AttributeError) without sending a request and without changing the
\* client, and the only step that gives the client its headers is a login
\* answered 201 that returns True.
C27_TokenlessClientFails ==
    [][Tokenless
          => /\ AttachesHeaders(call')
                  => /\ sent' = << >>
                     /\ outcome' = Raise("AttributeError", "headers")
                     /\ self' = self
             /\ "headers" \in DOMAIN self'
                  => /\ call'.op = "login"
                     /\ request'.status_code = 201
                     /\ outcome' = Return(PyTrue)]_vars

\* getusers raised on a client without headers, on which no login succeeded
C27_Witness ==
    /\ Tokenless
    /\ call.op = "getusers"
    /\ sent = << >>
    /\ outcome = Raise("AttributeError", "headers")
    /\ logged = None

-----------------------------------------------------------------------------
(* C25: calls from several threads *)

\* the SUDO entry of the headers is the one the setsudo of this user leaves
SudoIs(headers, user) ==
    IF user = None THEN "SUDO" \notin DOMAIN headers
    ELSE "SUDO" \in DOMAIN headers /\ headers["SUDO"] = user

\* C25: no lock serializes the calls that threads make on one client.  The
\* steps of a setsudo interleave with those of any other call, and whatever
\* the interleaving the SUDO entry of the headers is the one written by the
\* setsudo whose store ran last (absent when that one was setsudo(None) or
\* when none ran).  The witness is the race of the claim: a request sent
\* carrying SUDO, by a thread that never asked for it and whose call began
\* on headers without it.
C25_LastSetsudoWins ==
    "headers" \in DOMAIN self => SudoIs(self.headers, sudoed)

\* T1, which never called setsudo with a user, entered getusers on headers
\* without SUDO and sent its request carrying SUDO=u1, while T2 is inside a
\* further setsudo
C25_Witness ==
    /\ threads["T1"].pc = "sent"
    /\ ~threads["T1"].asked
    /\ "SUDO" \notin DOMAIN threads["T1"].began
    /\ CarriesSudo(threads["T1"].req[1], "u1")
    /\ threads["T2"].pc = "storing"
    /\ threads["T2"].user = "u2"

-----------------------------------------------------------------------------
(* C22: the frame of the operations *)

\* the operations that change the client
Mutators == {"__init__", "login", "setsudo"}

\* the last call is the remembered one made again: same operation and
\* arguments, same client, same response
RememberedAgain ==
    /\ remembered # << >>
    /\ call = remembered[1].call
    /\ self = remembered[1].self
    /\ request = remembered[1].request

\* C22: a call of any operation other than login and setsudo leaves every
\* attribute of the client (host, base URLs, token, headers with their SUDO
\* entry, verify_ssl) as it was, whatever the response; and how a call ends
\* is fixed by its arguments, the client and the response to its request:
\* whatever calls were made and however they ended since a call was
\* remembered, the same call on the same client with the same response sends
\* the same request and ends the same way.
C22_FrameAndIndependence ==
    [][/\ call'.op \notin Mutators => self' = self
       /\ RememberedAgain' => /\ outcome' = remembered'[1].outcome
                              /\ sent' = remembered'[1].sent]_vars

\* createproject was answered 404 and returned False; called again on the
\* same client it is answered 201 and returns the decoded body
C22_Witness ==
    /\ remembered # << >>
    /\ remembered[1].call.op = "createproject"
    /\ remembered[1].request.status_code = 404
    /\ remembered[1].outcome = Return(PyFalse)
    /\ call = remembered[1].call
    /\ self = remembered[1].self
    /\ "SUDO" \in DOMAIN self.headers
    /\ request.status_code = 201
    /\ outcome = Return(json_loads(request.content))

=============================================================================
